---------------------------- MODULE Spec2Model ----------------------------
(***************************************************************************)
(* Model of the metaball telemetry pipeline.                               *)
(*                                                                         *)
(*  Part I   the data-collection script, scripts/collect_real_data.py:     *)
(*           read_data (acquisition process), record_data (recorder        *)
(*           process), on_press (keyboard listener) and main, sharing the  *)
(*           flags is_rec / should_stop and a multiprocessing.Queue.       *)
(*  Part II  the telemetry program, scripts/run_metaball.py, publishing    *)
(*           over the channel of modules/zmq/metaball.py: a PUB socket and *)
(*           SUB sockets configured with hwm = 1 and conflate = True.      *)
(*                                                                         *)
(* One of the two programs runs: Init chooses which.                       *)
(***************************************************************************)
EXTENDS Integers, Sequences, FiniteSets, TLC

(***************************************************************************)
(* Bounds of the model.                                                    *)
(***************************************************************************)
\* Queue(maxsize=1000) of main, scaled down so that the queue can fill up.
MaxSize == 2

\* Number of acquisition ticks explored before a stop is requested.
MaxTicks == 3

\* Number of recording sessions the keyboard starts.
MaxSess == 2

\* Write errors save_data may raise in one run.
MaxErrs == 1

\* Number of telemetry messages Metaball.run publishes.
MaxMsgs == 3

\* CameraSubscriber: the timeout of a poll, in clock ticks (1000 ms in the code).
Timeout == 2

\* CameraSubscriber: camera messages that arrive, and subscribeMessage calls made.
MaxCamMsgs == 2

MaxCalls == 2

\* UsbCamera: frames read by read_img_pose.
MaxReads == 6

VARIABLES
    is_rec,         \* Value("b"): recording flag shared by all processes
    should_stop,    \* Value("b"): stop flag shared by all processes
    queue,          \* Queue(maxsize): the samples put and not yet taken, oldest first
    acqPc,          \* read_data: position in the tick loop / teardown
    tick,           \* read_data: number of ticks acquired and published so far
    released,       \* read_data: resources released by the finally block, in order
    drops,          \* read_data: number of "Error putting data in queue" lines logged
    recPc,          \* record_data: position in the poll loop
    recorded_data,  \* record_data: the buffer, None or a list of samples
    count,          \* record_data: the sample counter
    disk,           \* storage: the directories written by save_data, oldest first
    mainPc,         \* main: position
    listening,      \* the keyboard listener thread is running
    sess,           \* history: number of start commands that turned is_rec on
    enq,            \* history: ids of the samples the queue accepted, in order
    puts,           \* history: number of queue.put calls made by read_data
    gets,           \* history: number of queue.get calls made by record_data
    persistErrs,    \* history: number of write errors save_data has raised
    runPc,          \* Metaball.run: position in the tick loop / release
    runReleased,    \* Metaball.release: what has been released, in order
    ballnet,        \* Metaball.__init__: the BallNet(...) call made, the model
                    \* path given and the outcome of the call
    sent,           \* MetaballPublisher: number of messages published so far
    attached,       \* per subscriber: its SUB socket is connected and subscribed
    outPipe,        \* per subscriber: the PUB socket's outbound pipe to it
    inPipe,         \* per subscriber: the SUB socket's inbound pipe
    subPc,          \* per subscriber: position in subscribeMessage
    got,            \* history, per subscriber: the messages its receives returned
    delivered,      \* history, per subscriber: newest message that reached its socket
    calledAt,       \* history, per subscriber: messages published when it last called
    attachedAt,     \* history, per subscriber: messages published when it connected
    camPc,          \* CameraSubscriber.subscribeMessage: position
    camPipe,        \* CameraSubscriber: the SUB socket's inbound pipe
    camWaited,      \* CameraSubscriber: clock ticks spent in the current poll
    camSent,        \* camera publisher: number of messages that have arrived
    camOut,         \* history: outcome of every subscribeMessage call, in order
    usbPc,          \* UsbCamera: "init" inside __init__, "ready" once constructed,
                    \* "loop" when a script calls it tick after tick
    init_pose,      \* UsbCamera.init_pose
    filter_on,      \* UsbCamera.filter_on
    filter_frame,   \* UsbCamera.filter_frame
    pose_list,      \* UsbCamera.pose_list, the filter window
    last_pose,      \* UsbCamera.last_pose
    first_frame,    \* UsbCamera.first_frame
    cam_read,       \* history: the last read of the camera: the call made, what
                    \* camera.read() and read_img returned, whether a marker
                    \* was detected in the frame
    self_pose,      \* UsbCamera.pose
    reads,          \* history: number of read_img_pose calls; in a loop, the
                    \* frame count of the FPS report
    pushes,         \* history: the poses passed to pose_filter, in order
    outs,           \* history: the poses pose_filter returned, in order
    conv,           \* history: the last conversion called, with its argument and
                    \* its result, while the conversions are exercised
    tick_pose,      \* read_data / Metaball.run: the local pose_euler of the tick
    pub,            \* history: the messages handed to the publisher so far: their
                    \* number, and the raw and the published pose of the last one
    heap,           \* read_data: the contents of the force arrays, by array
    force,          \* read_data: the array the local name force is bound to
    buffer          \* Queue: the samples put and not yet serialised by the
                    \* queue's feeder thread, which hold their arrays by reference

flagVars == <<is_rec, should_stop>>
acqVars == <<acqPc, tick, released, drops>>
recVars == <<recPc, recorded_data, count>>
mainVars == <<mainPc, listening>>
histVars == <<sess, enq, puts, gets, persistErrs>>
collectVars == <<flagVars, queue, acqVars, recVars, disk, mainVars, histVars>>
runVars == <<runPc, runReleased, ballnet>>
subVars == <<attached, inPipe, subPc, got, delivered, calledAt, attachedAt>>
chanVars == <<runVars, sent, outPipe, subVars>>
camVars == <<camPc, camPipe, camWaited, camSent, camOut>>
usbVars == <<usbPc, init_pose, filter_on, filter_frame, pose_list, last_pose,
             first_frame, cam_read, self_pose, reads, pushes, outs, conv>>
libVars == <<camVars, usbVars>>
forceVars == <<heap, force, buffer>>
telVars == <<tick_pose, pub, forceVars>>

vars == <<is_rec, should_stop, queue, acqPc, tick, released, drops,
          recPc, recorded_data, count, disk, mainPc, listening, sess, enq,
          puts, gets, persistErrs, runPc, runReleased, ballnet,
          sent, attached, outPipe, inPipe,
          subPc, got, delivered, calledAt, attachedAt, camPc, camPipe,
          camWaited, camSent, camOut, usbPc, init_pose, filter_on,
          filter_frame, pose_list, last_pose, first_frame, cam_read, self_pose,
          reads,
          pushes, outs, conv, tick_pose, pub, heap, force, buffer>>

(***************************************************************************)
(* Values.                                                                 *)
(***************************************************************************)
\* Python's None / a list, for record_data's recorded_data.
None == [none |-> TRUE, list |-> <<>>]

List(s) == [none |-> FALSE, list |-> s]

\* A sample [pose_euler.flatten(), force, img] of tick n.  The three parts
\* come from the same tick, so the tick number stands for each of them; sess
\* records how many start commands had been given when it was enqueued; pose
\* is pose_euler.flatten(), the local pose_euler of the tick.
Sample(n, s, p) == [id |-> n, sess |-> s, pose |-> p]

Range(s) == {s[i] : i \in DOMAIN s}

Max(a, b) == IF a >= b THEN a ELSE b


(***************************************************************************)
(* Numbers, vectors and rotations for UsbCamera (devices/camera/           *)
(* usbcamera.py).  A translation component is a rational <<n, d>> in       *)
(* lowest terms, d > 0, so that np.mean is computed exactly.  A rotation   *)
(* vector is a triple of integers in units of a quarter turn (pi/2); the   *)
(* ones given a meaning as rotations are the axis-aligned ones, which      *)
(* scipy's Rotation maps to matrices with entries in {-1, 0, 1}.           *)
(***************************************************************************)
RECURSIVE GCD(_, _)
GCD(a, b) == IF b = 0 THEN a ELSE GCD(b, a % b)

Abs(n) == IF n < 0 THEN -n ELSE n

Norm(n, d) ==
    LET g == GCD(Abs(n), Abs(d))
        sg == IF d < 0 THEN -1 ELSE 1
    IN  <<sg * (n \div g), sg * (d \div g)>>

Rat(n) == <<n, 1>>

RatAdd(a, b) ==
    LET l == (a[2] * b[2]) \div GCD(a[2], b[2])
    IN  Norm(a[1] * (l \div a[2]) + b[1] * (l \div b[2]), l)

RatScale(k, a) == Norm(k * a[1], a[2])

RatSub(a, b) == RatAdd(a, RatScale(-1, b))

RatDiv(a, k) == Norm(a[1], a[2] * k)

RatMul(a, b) == Norm(a[1] * b[1], a[2] * b[2])

RatGt(a, b) == a[1] * b[2] > b[1] * a[2]

RECURSIVE RatSum(_)
RatSum(s) == IF s = <<>> THEN Rat(0) ELSE RatAdd(Head(s), RatSum(Tail(s)))

\* np.mean(..., axis=0) of a list of 3-vectors of rationals.
MeanVec(vs) ==
    [j \in 1..3 |-> RatDiv(RatSum([i \in DOMAIN vs |-> vs[i][j]]), Len(vs))]

RatVec(v) == [j \in 1..3 |-> Rat(v[j])]

\* cos and sin of k quarter turns.
Cos4(k) == <<1, 0, -1, 0>>[(k % 4) + 1]

Sin4(k) == <<0, 1, 0, -1>>[(k % 4) + 1]

\* spR.from_rotvec(rvec).as_matrix() of an axis-aligned rotation vector.
from_rotvec(r) ==
    IF r[1] # 0
    THEN <<<<1, 0, 0>>, <<0, Cos4(r[1]), -Sin4(r[1])>>, <<0, Sin4(r[1]), Cos4(r[1])>>>>
    ELSE IF r[2] # 0
    THEN <<<<Cos4(r[2]), 0, Sin4(r[2])>>, <<0, 1, 0>>, <<-Sin4(r[2]), 0, Cos4(r[2])>>>>
    ELSE <<<<Cos4(r[3]), -Sin4(r[3]), 0>>, <<Sin4(r[3]), Cos4(r[3]), 0>>, <<0, 0, 1>>>>

\* The rotation vectors as_rotvec() returns: the angle in [0, pi].
CanonRvecs ==
    {<<0, 0, 0>>} \cup
    UNION {{<<k, 0, 0>>, <<0, k, 0>>, <<0, 0, k>>} : k \in {-1, 1, 2}}

\* The matrix of each of them, computed once.
CanonRmats == [r \in CanonRvecs |-> from_rotvec(r)]

\* spR.from_matrix(rmat).as_rotvec()
as_rotvec(m) == CHOOSE r \in CanonRvecs : CanonRmats[r] = m

\* a @ b for 3x3 integer matrices.
MatMul(a, b) ==
    [i \in 1..3 |-> [j \in 1..3 |->
        a[i][1] * b[1][j] + a[i][2] * b[2][j] + a[i][3] * b[3][j]]]

\* np.linalg.inv of a rotation matrix: its transpose.
MatInv(a) == [i \in 1..3 |-> [j \in 1..3 |-> a[j][i]]]

\* m @ v for an integer matrix and a vector of rationals.
MatVecRat(m, v) ==
    [i \in 1..3 |-> RatSum([j \in 1..3 |-> RatScale(m[i][j], v[j])])]

\* m @ v for an integer matrix and a vector of integers.
MatVecInt(m, v) ==
    [i \in 1..3 |-> m[i][1] * v[1] + m[i][2] * v[2] + m[i][3] * v[3]]

\* A pose np.array([x, y, z, rx, ry, rz]): pose[:3] and pose[3:].
Pose(t, r) == [t |-> t, r |-> r]

\* np.zeros(6)
Zeros6 == Pose(RatVec(<<0, 0, 0>>), <<0, 0, 0>>)

(***************************************************************************)
(* UsbCamera: the pose conversions.  init is self.init_pose, from which    *)
(* __init__ derives init_tvec and init_rmat.                               *)
(***************************************************************************)
\* Variant: the reference is not subtracted from the translation.
pose2ref_rotonly(init, pose) ==
    Pose(MatVecRat(MatInv(from_rotvec(init.r)), pose.t),
         as_rotvec(MatMul(MatInv(from_rotvec(init.r)), from_rotvec(pose.r))))

\* Lines 258-271: pose2ref.
pose2ref(init, pose) ==
    LET init_rmat == from_rotvec(init.r)
        rmat == MatMul(MatInv(init_rmat), from_rotvec(pose.r))
        rvec == as_rotvec(rmat)
        tvec == MatVecRat(MatInv(init_rmat),
                          [j \in 1..3 |-> RatSub(pose.t[j], init.t[j])])
    IN  Pose(tvec, rvec)

\* Variant: the matrix of pose_marker2cam's docstring.
trans_rmat_docstring == <<<<1, 0, 0>>, <<0, -1, 0>>, <<0, 0, -1>>>>

\* Line 292: trans_rmat.
trans_rmat == <<<<0, 1, 0>>, <<1, 0, 0>>, <<0, 0, -1>>>>

\* Lines 292-298: pose_marker2cam.
pose_marker2cam(pose) ==
    Pose(MatVecRat(trans_rmat, pose.t), MatVecInt(trans_rmat, pose.r))

\* rr.as_euler("xyz"): the angles about x, y and z; the angle about y lies
\* in [-pi/2, pi/2], so a half turn about y is a half turn about x and z.
as_euler(r) ==
    LET c == as_rotvec(from_rotvec(r))
    IN  IF c = <<0, 2, 0>> THEN <<2, 0, 2>> ELSE c

\* Variant: the translation is taken from self.last_pose.
pose_euler_lasttvec(pose) == Pose(last_pose.t, as_euler(pose.r))

\* Lines 314-322: pose_euler.
pose_euler(pose) == Pose(pose.t, as_euler(pose.r))

\* The rotation vector r is one from_rotvec is defined on here.
AxisAligned(r) == Cardinality({j \in 1..3 : r[j] # 0}) <= 1

\* The product of the two rotations is again about a coordinate axis.
SameAxis(a, b) == \A i, j \in 1..3 : (a[i] # 0 /\ b[j] # 0) => i = j

(***************************************************************************)
(* The pose of a tick in the two scripts.  Their camera is a WebCamera,    *)
(* whose conversions carry the names below and compute toReference,        *)
(* axisRemap and toEuler, as UsbCamera's pose2ref, pose_marker2cam and      *)
(* pose_euler do.                                                          *)
(***************************************************************************)
\* camera.poseToReferece(pose), the camera's initial pose being init.
poseToReferece(init, pose) == pose2ref(init, pose)

\* camera.poseAxisTransfer(pose)
poseAxisTransfer(pose) == pose_marker2cam(pose)

\* camera.poseVectorToEuler(pose)
poseVectorToEuler(pose) == pose_euler(pose)

\* Variant: the axes are remapped before the reference is taken.
TickPose_remapfirst(init, raw) ==
    poseVectorToEuler(poseToReferece(init, poseAxisTransfer(raw)))

\* collect_real_data.py lines 87-91, run_metaball.py lines 93-97: pose_ref,
\* pose_global and pose_euler of the tick whose raw pose is raw.
TickPose(init, raw) ==
    LET pose_ref == poseToReferece(init, raw)
        pose_global == poseAxisTransfer(pose_ref)
    IN  poseVectorToEuler(pose_global)

\* No message has been handed to the publisher yet.
NoMessage == [n |-> 0, raw |-> Zeros6, pose |-> Zeros6]

\* pub_msg(img, pose, force, node) / publishMessage(img, pose, force, node):
\* one more message, whose pose is the argument.
Published(old, raw, pose) == [n |-> old.n + 1, raw |-> raw, pose |-> pose]

\* The initial pose of the script's camera: a quarter turn about z.
ScriptInitPose == Pose(RatVec(<<10, 0, 5>>), <<0, 0, 1>>)

\* The raw poses in front of the script's camera.  The rotations are about
\* z; one rotation vector is not in as_rotvec's range (three quarter turns).
RawPoses ==
    <<Pose(RatVec(<<12, 0, 6>>), <<0, 0, 1>>),
      Pose(RatVec(<<30, 0, 0>>), <<0, 0, 3>>)>>

\* The scene: the raw pose of the n-th frame the camera reads.
RawFrame(n) == RawPoses[(n % Len(RawPoses)) + 1]

\* The pose of the tick for each raw pose of the scene, computed once.
TickPoses == [i \in DOMAIN RawPoses |-> TickPose(ScriptInitPose, RawPoses[i])]

\* pose_euler of the n-th tick.
TickPoseOf(n) == TickPoses[(n % Len(RawPoses)) + 1]

(***************************************************************************)
(* multiprocessing.Queue(maxsize=MaxSize), as read_data and record_data    *)
(* use it: a FIFO; put(block=False) takes one of maxsize slots or raises   *)
(* Full, get() frees a slot.                                               *)
(***************************************************************************)
\* Variant: an unbounded queue, which never raises Full.
QueueFull_never(q) == FALSE

\* queue.put(..., block=False) raises Full: no slot is left.
QueueFull(q) == Len(q) >= MaxSize

\* queue.empty()
QueueEmpty(q) == q = <<>>

(***************************************************************************)
(* save_data(data, data_dir) of utils/data_utils.py.                       *)
(***************************************************************************)
\* The call of record_data's shutdown path passes no data_dir.
NoDir == 0

\* Python binds the arguments before the body runs: a call without the
\* required positional data_dir raises TypeError and writes nothing.
save_data_raises(data, data_dir) == data_dir = NoDir

\* Variant: the rows of force.csv are written last sample first.
WriteDir_forcereversed(old, data) ==
    [images |-> [i \in 1..Max(Len(old.images), Len(data)) |->
                    IF i <= Len(data) THEN data[i].id ELSE old.images[i]],
     pose   |-> [i \in 1..Len(data) |-> data[i].id],
     force  |-> [i \in 1..Len(data) |-> data[Len(data) + 1 - i].id]]

\* One directory holds images/<i>.jpg, pose.csv and force.csv.  Files are
\* overwritten in place: image files beyond the new batch's length stay.
WriteDir(old, data) ==
    [images |-> [i \in 1..Max(Len(old.images), Len(data)) |->
                    IF i <= Len(data) THEN data[i].id ELSE old.images[i]],
     pose   |-> [i \in 1..Len(data) |-> data[i].id],
     force  |-> [i \in 1..Len(data) |-> data[i].id]]

EmptyDir == [images |-> <<>>, pose |-> <<>>, force |-> <<>>]

\* The storage after save_data(data, data_dir); data_dir is the index of the
\* directory, Len(d) + 1 naming a directory that does not exist yet.
save_data(d, data, data_dir) ==
    IF data_dir = Len(d) + 1
    THEN Append(d, WriteDir(EmptyDir, data))
    ELSE [d EXCEPT ![data_dir] = WriteDir(d[data_dir], data)]

\* What a save_data call may meet: no error, os.makedirs raising OSError
\* (nothing is written), or np.savetxt raising OSError on pose.csv (the
\* images are written, the two text files are not).
WriteErrors == {"none", "makedirs", "savetxt"}

\* The images of save_data(data, data_dir), without the text files.
WriteImages(old, data) ==
    [images |-> [i \in 1..Max(Len(old.images), Len(data)) |->
                    IF i <= Len(data) THEN data[i].id ELSE old.images[i]],
     pose   |-> old.pose,
     force  |-> old.force]

\* The storage after a save_data(data, data_dir) that raised err.
save_data_failed(d, data, data_dir, err) ==
    IF err = "makedirs" THEN d
    ELSE IF data_dir = Len(d) + 1
    THEN Append(d, WriteImages(EmptyDir, data))
    ELSE [d EXCEPT ![data_dir] = WriteImages(d[data_dir], data)]

\* Lines 151-201: save_data is called inside the outer try, whose only
\* handler is except KeyboardInterrupt: an OSError leaves the loop through
\* the finally block and ends the process.
AfterPersistFailure == "crashed"

\* time.strftime('%Y%m%d_%H%M%S') has a resolution of one second: a flush
\* names either the directory of the previous flush (same second) or a new one.
DataDirs(d) == {Len(d), Len(d) + 1} \ {NoDir}

(***************************************************************************)
(* read_data: the acquisition process.                                     *)
(***************************************************************************)
\* The finally block of read_data, in program order.
Teardown == <<"netft", "camera", "publisher">>

\* Lines 85-116: read image and pose, convert the pose, read and convert the
\* force, publish the message, count the frame, then test is_rec.value.
read_data_tick ==
    /\ acqPc = "tick"
    /\ tick < MaxTicks \/ should_stop
    /\ tick' = tick + 1
    /\ tick_pose' = TickPoseOf(tick')
    /\ pub' = Published(pub, RawFrame(tick'), tick_pose')
    /\ UNCHANGED forceVars
    /\ acqPc' = IF is_rec THEN "put" ELSE "checkstop"
    /\ UNCHANGED <<flagVars, queue, released, drops, recVars, disk, mainVars,
                   histVars,
                   chanVars, libVars>>

\* Variant: no try/except around the put, so Full ends the loop.
AfterFull_uncaught == "finally"

\* Lines 120-121: except Exception prints the error; the tick goes on to
\* the stop check.
AfterFull == "checkstop"

\* Lines 118-121: queue.put([...], block=False); Full is caught and logged.
read_data_put ==
    /\ acqPc = "put"
    /\ puts' = puts + 1
    /\ IF QueueFull(queue)
       THEN /\ drops' = drops + 1
            /\ acqPc' = AfterFull
            /\ UNCHANGED <<queue, enq>>
       ELSE /\ queue' = Append(queue, Sample(tick, sess, tick_pose))
            /\ enq' = Append(enq, tick)
            /\ acqPc' = "checkstop"
            /\ UNCHANGED drops
    /\ UNCHANGED <<flagVars, tick, released, recVars, disk, mainVars,
                   sess, gets, persistErrs,
                   chanVars, libVars, telVars>>

\* Variant: the loop acknowledges the stop request by clearing the flag.
read_data_checkstop_ack ==
    /\ acqPc = "checkstop"
    /\ acqPc' = IF should_stop THEN "finally" ELSE "tick"
    /\ should_stop' = FALSE
    /\ UNCHANGED <<is_rec, queue, tick, released, drops, recVars, disk,
                   mainVars, histVars,
                   chanVars, libVars, telVars>>

\* Lines 124-125: if should_stop.value: break
read_data_checkstop ==
    /\ acqPc = "checkstop"
    /\ acqPc' = IF should_stop THEN "finally" ELSE "tick"
    /\ UNCHANGED <<flagVars, queue, tick, released, drops, recVars, disk,
                   mainVars, histVars,
                   chanVars, libVars, telVars>>

\* Variant: the publisher is closed before the hardware is released.
FinallyStep_swapped(done) == <<"publisher", "netft", "camera">>[Len(done) + 1]

\* The resource the finally block releases next.
FinallyStep(done) == Teardown[Len(done) + 1]

\* Lines 128-135: netft.disconnect(); camera.release(); finger_publisher.close()
read_data_finally ==
    /\ acqPc = "finally"
    /\ released' = Append(released, FinallyStep(released))
    /\ acqPc' = IF Len(released') = Len(Teardown) THEN "done" ELSE "finally"
    /\ UNCHANGED <<flagVars, queue, tick, drops, recVars, disk, mainVars,
                   histVars,
                   chanVars, libVars, telVars>>

InLoop(pc) == pc \in {"tick", "put", "checkstop"}

\* Lines 126-127: KeyboardInterrupt raised inside the loop.
read_data_interrupt ==
    /\ InLoop(acqPc)
    /\ should_stop' = TRUE
    /\ acqPc' = "finally"
    /\ UNCHANGED <<is_rec, queue, tick, released, drops, recVars, disk,
                   mainVars, histVars,
                   chanVars, libVars, telVars>>

\* An exception other than KeyboardInterrupt raised by the camera, the force
\* sensor or the publisher inside a tick: no except clause matches, the
\* finally block runs and the exception ends the process.
read_data_error ==
    /\ acqPc = "tick"
    /\ acqPc' = "finally"
    /\ UNCHANGED <<flagVars, queue, tick, released, drops, recVars, disk,
                   mainVars, histVars,
                   chanVars, libVars, telVars>>

read_data ==
    \/ read_data_tick
    \/ read_data_put
    \/ read_data_checkstop
    \/ read_data_finally

(***************************************************************************)
(* record_data: the recorder process.  Every is_rec.value in the if/elif   *)
(* chain is a read of its own, so the flag may change between two tests.   *)
(***************************************************************************)
\* Line 156: if not is_rec.value and recorded_data is None: sleep; continue
record_data_L156 ==
    /\ recPc = "L156"
    /\ recPc' = IF ~is_rec /\ recorded_data.none THEN "L156" ELSE "L160"
    /\ UNCHANGED <<flagVars, queue, acqVars, recorded_data, count, disk,
                   mainVars, histVars,
                   chanVars, libVars, telVars>>

\* Lines 160-169: elif not is_rec.value and recorded_data is not None:
\* save the buffer when count > 0, drop it, continue.
record_data_L160 ==
    /\ recPc = "L160"
    /\ IF ~is_rec /\ ~recorded_data.none
       THEN IF count > 0
            THEN \E data_dir \in DataDirs(disk), err \in WriteErrors :
                    IF err = "none"
                    THEN /\ disk' = save_data(disk, recorded_data.list, data_dir)
                         /\ recorded_data' = None
                         /\ recPc' = "L156"
                         /\ UNCHANGED persistErrs
                    ELSE /\ persistErrs < MaxErrs
                         /\ disk' = save_data_failed(disk, recorded_data.list,
                                                     data_dir, err)
                         /\ persistErrs' = persistErrs + 1
                         /\ recPc' = AfterPersistFailure
                         /\ UNCHANGED recorded_data
            ELSE /\ recorded_data' = None
                 /\ recPc' = "L156"
                 /\ UNCHANGED <<disk, persistErrs>>
       ELSE /\ recPc' = "L170"
            /\ UNCHANGED <<recorded_data, disk, persistErrs>>
    /\ UNCHANGED <<flagVars, queue, acqVars, count, mainVars, sess, enq, puts,
                   gets,
                   chanVars, libVars, telVars>>

\* Variant: the start of a session allocates the buffer and leaves the
\* counter as it is.
record_data_L170_noreset ==
    /\ recPc = "L170"
    /\ IF is_rec /\ recorded_data.none
       THEN /\ recorded_data' = List(<<>>)
            /\ recPc' = "L192"
            /\ UNCHANGED count
       ELSE /\ recPc' = "L175"
            /\ UNCHANGED <<recorded_data, count>>
    /\ UNCHANGED <<flagVars, queue, acqVars, disk, mainVars, histVars,
                   chanVars, libVars, telVars>>

\* Lines 170-174: elif is_rec.value and recorded_data is None: start.
record_data_L170 ==
    /\ recPc = "L170"
    /\ IF is_rec /\ recorded_data.none
       THEN /\ recorded_data' = List(<<>>)
            /\ count' = 0
            /\ recPc' = "L192"
       ELSE /\ recPc' = "L175"
            /\ UNCHANGED <<recorded_data, count>>
    /\ UNCHANGED <<flagVars, queue, acqVars, disk, mainVars, histVars,
                   chanVars, libVars, telVars>>

\* Line 175: elif is_rec.value and recorded_data is not None
record_data_L175 ==
    /\ recPc = "L175"
    /\ recPc' = IF is_rec /\ ~recorded_data.none THEN "L178" ELSE "L192"
    /\ UNCHANGED <<flagVars, queue, acqVars, recorded_data, count, disk,
                   mainVars, histVars,
                   chanVars, libVars, telVars>>

\* Variant: the sample is read from the head of the queue and left there.
record_data_L178_peek ==
    /\ recPc = "L178"
    /\ IF ~QueueEmpty(queue)
       THEN /\ recorded_data' = List(Append(recorded_data.list, Head(queue)))
            /\ count' = count + 1
            /\ gets' = gets + 1
            /\ UNCHANGED queue
       ELSE UNCHANGED <<recorded_data, queue, count, gets>>
    /\ recPc' = "L192"
    /\ UNCHANGED <<flagVars, acqVars, disk, mainVars, sess, enq, puts,
                   persistErrs,
                   chanVars, libVars, telVars>>

\* Lines 177-189: one sample is taken from the queue if it is not empty,
\* else the recorder sleeps for the poll interval.
record_data_L178 ==
    /\ recPc = "L178"
    /\ IF ~QueueEmpty(queue)
       THEN /\ recorded_data' = List(Append(recorded_data.list, Head(queue)))
            /\ queue' = Tail(queue)
            /\ count' = count + 1
            /\ gets' = gets + 1
       ELSE UNCHANGED <<recorded_data, queue, count, gets>>
    /\ recPc' = "L192"
    /\ UNCHANGED <<flagVars, acqVars, disk, mainVars, sess, enq, puts,
                   persistErrs,
                   chanVars, libVars, telVars>>

\* Lines 192-197: if should_stop.value: save what is left and break.  The
\* call is save_data(recorded_data), without data_dir.
record_data_L192 ==
    /\ recPc = "L192"
    /\ IF should_stop
       THEN IF ~recorded_data.none /\ Len(recorded_data.list) > 0
            THEN IF save_data_raises(recorded_data.list, NoDir)
                 THEN /\ recPc' = "crashed"
                      /\ UNCHANGED disk
                 ELSE /\ recPc' = "done"
                      /\ disk' = save_data(disk, recorded_data.list, NoDir)
            ELSE /\ recPc' = "done"
                 /\ UNCHANGED disk
       ELSE /\ recPc' = "L156"
            /\ UNCHANGED disk
    /\ UNCHANGED <<flagVars, queue, acqVars, recorded_data, count,
                   mainVars, histVars,
                   chanVars, libVars, telVars>>

RecInLoop(pc) == pc \in {"L156", "L160", "L170", "L175", "L178", "L192"}

\* Lines 198-201: KeyboardInterrupt raised inside the loop.
record_data_interrupt ==
    /\ RecInLoop(recPc)
    /\ should_stop' = TRUE
    /\ recPc' = "done"
    /\ UNCHANGED <<is_rec, queue, acqVars, recorded_data, count, disk,
                   mainVars, histVars,
                   chanVars, libVars, telVars>>

record_data ==
    \/ record_data_L156
    \/ record_data_L160
    \/ record_data_L170
    \/ record_data_L175
    \/ record_data_L178
    \/ record_data_L192

(***************************************************************************)
(* on_press: the keyboard listener's callback.                             *)
(***************************************************************************)
\* The keys: the characters r and s, any other character, and a special key,
\* which has no char attribute (key.char raises AttributeError).
Keys == {"r", "s", "other", "special"}

\* Variant: r also withdraws a pending stop request.
on_press_resume(key) ==
    /\ listening
    /\ key = "r" /\ ~is_rec => sess < MaxSess
    /\ is_rec' = CASE key = "r" -> TRUE
                   [] key = "s" -> FALSE
                   [] OTHER     -> is_rec
    /\ sess' = IF key = "r" /\ ~is_rec THEN sess + 1 ELSE sess
    /\ listening' = ~should_stop
    /\ should_stop' = (should_stop /\ key # "r")
    /\ UNCHANGED <<queue, acqVars, recVars, disk, mainPc, enq,
                   puts, gets, persistErrs,
                   chanVars, libVars, telVars>>

\* Variant: s also ends the listener.
on_press_quit(key) ==
    /\ listening
    /\ key = "r" /\ ~is_rec => sess < MaxSess
    /\ is_rec' = CASE key = "r" -> TRUE
                   [] key = "s" -> FALSE
                   [] OTHER     -> is_rec
    /\ sess' = IF key = "r" /\ ~is_rec THEN sess + 1 ELSE sess
    /\ listening' = ~(should_stop \/ key = "s")
    /\ UNCHANGED <<should_stop, queue, acqVars, recVars, disk, mainPc, enq,
                   puts, gets, persistErrs,
                   chanVars, libVars, telVars>>

\* Lines 216-230.  Returning False stops the listener.
on_press(key) ==
    /\ listening
    /\ key = "r" /\ ~is_rec => sess < MaxSess
    /\ is_rec' = CASE key = "r" -> TRUE
                   [] key = "s" -> FALSE
                   [] OTHER     -> is_rec
    /\ sess' = IF key = "r" /\ ~is_rec THEN sess + 1 ELSE sess
    /\ listening' = ~should_stop
    /\ UNCHANGED <<should_stop, queue, acqVars, recVars, disk, mainPc, enq,
                   puts, gets, persistErrs,
                   chanVars, libVars, telVars>>

(***************************************************************************)
(* main: the top-level process.                                            *)
(***************************************************************************)
Terminated(pc) == pc \in {"done", "crashed"}

\* Variant: join() without a timeout returns only when the process has ended.
JoinReturns_notimeout(pc, timedOut) == Terminated(pc)

\* Process.join(timeout=1) returns when the process has ended or after 1 s.
JoinReturns(pc, timedOut) == Terminated(pc) \/ timedOut

\* Lines 259-260: while not should_stop.value: time.sleep(0.1)
main_wait ==
    /\ mainPc = "wait"
    /\ mainPc' = IF should_stop THEN "join_read" ELSE "wait"
    /\ UNCHANGED <<flagVars, queue, acqVars, recVars, disk, listening,
                   histVars,
                   chanVars, libVars, telVars>>

\* Lines 261-263: KeyboardInterrupt in the wait loop.
main_interrupt ==
    /\ mainPc = "wait"
    /\ should_stop' = TRUE
    /\ listening' = FALSE
    /\ mainPc' = "join_read"
    /\ UNCHANGED <<is_rec, queue, acqVars, recVars, disk, histVars,
                   chanVars, libVars, telVars>>

\* Line 267: read_process.join(timeout=1)
main_join_read ==
    /\ mainPc = "join_read"
    /\ \E timedOut \in BOOLEAN : JoinReturns(acqPc, timedOut)
    /\ mainPc' = "join_record"
    /\ UNCHANGED <<flagVars, queue, acqVars, recVars, disk, listening,
                   histVars,
                   chanVars, libVars, telVars>>

\* Lines 268-271: record_process.join(timeout=1), then main returns.
main_join_record ==
    /\ mainPc = "join_record"
    /\ \E timedOut \in BOOLEAN : JoinReturns(recPc, timedOut)
    /\ mainPc' = "exit"
    /\ UNCHANGED <<flagVars, queue, acqVars, recVars, disk, listening,
                   histVars,
                   chanVars, libVars, telVars>>

main ==
    \/ main_wait
    \/ main_join_read
    \/ main_join_record

(***************************************************************************)
(* read_data's force array and the queue's feeder thread.  A force array   *)
(* has a force half (elements 0..2) and a torque half (elements 3..5); a   *)
(* half is the reading it was computed from and the frame it is in.        *)
(* multiprocessing.Queue.put appends the object to a buffer and returns;   *)
(* the queue's feeder thread serialises the buffered objects later and     *)
(* writes them to the pipe that queue.get reads.                           *)
(***************************************************************************)
\* resp.FTData of tick n, in the sensor frame.
Reading(n) == [frame |-> "sensor", of |-> n]

\* np.zeros(6)
ZeroForce == [f |-> Reading(0), t |-> Reading(0)]

\* data_utils.py, lines 63-70: global_force = np.zeros(6), a new array,
\* filled from the array given and returned.
force_sensor2global(arrays, a, new) ==
    [arrays EXCEPT ![new] = [f |-> [frame |-> "global", of |-> arrays[a].f.of],
                             t |-> [frame |-> "global", of |-> arrays[a].t.of]]]

\* Lines 85-94: the frame is read and converted; resp = netft.get_real_data()
read_data_get_real_data ==
    /\ acqPc = "get_real_data"
    /\ tick < MaxTicks
    /\ tick' = tick + 1
    /\ tick_pose' = TickPoseOf(tick')
    /\ acqPc' = "write_f"
    /\ UNCHANGED <<flagVars, queue, released, drops, recVars, disk, mainVars,
                   histVars, chanVars, libVars, pub, forceVars>>

\* Lines 95-96, i = 0..2: force[i] = resp.FTData[i], written into the array
\* that force is bound to.
read_data_write_f ==
    /\ acqPc = "write_f"
    /\ heap' = [heap EXCEPT ![force].f = Reading(tick)]
    /\ acqPc' = "write_t"
    /\ UNCHANGED <<flagVars, queue, tick, released, drops, recVars, disk,
                   mainVars, histVars, chanVars, libVars, tick_pose, pub,
                   force, buffer>>

\* Lines 95-96, i = 3..5.
read_data_write_t ==
    /\ acqPc = "write_t"
    /\ heap' = [heap EXCEPT ![force].t = Reading(tick)]
    /\ acqPc' = "convert"
    /\ UNCHANGED <<flagVars, queue, tick, released, drops, recVars, disk,
                   mainVars, histVars, chanVars, libVars, tick_pose, pub,
                   force, buffer>>

\* Lines 98-116: force = force_sensor2global(force, ...) binds force to the
\* array returned; the message is published, pub_msg having serialised the
\* force; then is_rec.value is tested.
read_data_convert ==
    /\ acqPc = "convert"
    /\ heap' = force_sensor2global(heap, force, tick)
    /\ force' = tick
    /\ pub' = [n |-> tick, force |-> heap'[force']]
    /\ acqPc' = IF is_rec THEN "put" ELSE "get_real_data"
    /\ UNCHANGED <<flagVars, queue, tick, released, drops, recVars, disk,
                   mainVars, histVars, chanVars, libVars, tick_pose, buffer>>

\* A sample as the queue holds it: force is the array (by reference in the
\* buffer, by contents once serialised); pubf is the force that was
\* published in the tick of the sample.
ForceSample(n, s, p, a, pubf) ==
    [id |-> n, sess |-> s, pose |-> p, force |-> a, pubf |-> pubf]

\* Lines 118-121: queue.put([pose_euler.flatten(), force, img], block=False):
\* Full when maxsize samples are in the queue, serialised or not; else the
\* sample is appended to the buffer of the feeder thread.
Queue_put ==
    /\ acqPc = "put"
    /\ puts' = puts + 1
    /\ IF QueueFull(buffer \o queue)
       THEN /\ drops' = drops + 1
            /\ UNCHANGED <<buffer, enq>>
       ELSE /\ buffer' = Append(buffer, ForceSample(tick, sess, tick_pose,
                                                    force, pub.force))
            /\ enq' = Append(enq, tick)
            /\ UNCHANGED drops
    /\ acqPc' = "get_real_data"
    /\ UNCHANGED <<flagVars, queue, tick, released, recVars, disk, mainVars,
                   sess, gets, persistErrs, chanVars, libVars, tick_pose, pub,
                   heap, force>>

\* The feeder thread serialises the oldest buffered sample, its array as it
\* is at that moment, and writes it to the pipe.
Queue_feed ==
    /\ buffer # <<>>
    /\ queue' = Append(queue, [Head(buffer) EXCEPT !.force = heap[@]])
    /\ buffer' = Tail(buffer)
    /\ UNCHANGED <<flagVars, acqVars, recVars, disk, mainVars, histVars,
                   chanVars, libVars, tick_pose, pub, heap, force>>

(***************************************************************************)
(* The telemetry channel: MetaballPublisher and MetaballSubscriber of      *)
(* modules/zmq/metaball.py.  A message is identified by its number, the    *)
(* order of its timestamp.  send() hands the message to the pipe of every  *)
(* connected subscriber and returns; an I/O thread carries it to the       *)
(* subscriber's socket later; recv() takes it from the inbound pipe.       *)
(***************************************************************************)
Subscribers == {"s1", "s2"}

\* hwm: int = 1, the default both constructors are called with.
Hwm == 1

\* conflate: bool = True, the default both constructors are called with.
Conflate == TRUE

\* What a pipe of a socket with the options hwm and conflate holds after a
\* message is written to it: with conflate only the newest message, else
\* messages queue up to the high-water mark and further ones are dropped.
PipeWrite(p, m, hwm, conflate) ==
    IF conflate THEN <<m>>
    ELSE IF Len(p) < hwm THEN Append(p, m)
    ELSE p

\* Variant: the PUB socket is left with the library's defaults (no conflate,
\* a high-water mark of 1000 messages).
PublisherWrite_defaults(p, m) == Append(p, m)

\* Lines 46-50: the PUB socket's set_hwm(hwm) and setsockopt(CONFLATE, conflate).
PublisherWrite(p, m) == PipeWrite(p, m, Hwm, Conflate)

\* Variant: the SUB socket is left with the library's defaults.
SubscriberWrite_defaults(p, m) == Append(p, m)

\* Lines 136-140: the SUB socket's set_hwm(hwm) and setsockopt(CONFLATE, conflate).
SubscriberWrite(p, m) == PipeWrite(p, m, Hwm, Conflate)

\* Variant: a socket that keeps messages for subscribers that have not
\* connected yet.
publishMessage_backlog(m) ==
    /\ sent' = m
    /\ outPipe' = [s \in Subscribers |-> PublisherWrite(outPipe[s], m)]

\* Lines 83-92: MetaballPublisher.publishMessage builds message number m and
\* sends it: a PUB socket never blocks, a message is written to the pipe of
\* each connected subscriber and is dropped for everyone else.
publishMessage(m) ==
    /\ sent' = m
    /\ outPipe' = [s \in Subscribers |->
                     IF attached[s] THEN PublisherWrite(outPipe[s], m)
                     ELSE outPipe[s]]

\* The I/O threads carry the oldest message of the publisher's pipe to the
\* subscriber's socket.
Transfer(s) ==
    /\ outPipe[s] # <<>>
    /\ outPipe' = [outPipe EXCEPT ![s] = Tail(@)]
    /\ inPipe' = [inPipe EXCEPT ![s] = SubscriberWrite(@, Head(outPipe[s]))]
    /\ delivered' = [delivered EXCEPT ![s] = Head(outPipe[s])]
    /\ UNCHANGED <<collectVars, telVars, libVars, runVars, sent, attached, subPc, got, calledAt,
                   attachedAt>>

\* Lines 134-144: MetaballSubscriber.__init__ connects and subscribes to a
\* bound publisher.
MetaballSubscriber_init(s) ==
    /\ runPc \in {"loop", "release"}
    /\ ~attached[s]
    /\ attached' = [attached EXCEPT ![s] = TRUE]
    /\ attachedAt' = [attachedAt EXCEPT ![s] = sent]
    /\ UNCHANGED <<collectVars, telVars, libVars, runVars, sent, outPipe, inPipe, subPc, got,
                   delivered, calledAt>>

\* Line 173: subscribeMessage calls self.subscriber.recv(), which has no
\* timeout (no RCVTIMEO is set and no poller is used).
subscribeMessage_call(s) ==
    /\ attached[s]
    /\ subPc[s] = "idle"
    /\ subPc' = [subPc EXCEPT ![s] = "recv"]
    /\ calledAt' = [calledAt EXCEPT ![s] = sent]
    /\ UNCHANGED <<collectVars, telVars, libVars, runVars, sent, outPipe, attached, inPipe, got,
                   delivered, attachedAt>>

\* Variant: recv() returns the buffered message and leaves it in the pipe.
subscribeMessage_return_peek(s) ==
    /\ subPc[s] = "recv"
    /\ inPipe[s] # <<>>
    /\ got' = [got EXCEPT ![s] = Append(@, Head(inPipe[s]))]
    /\ subPc' = [subPc EXCEPT ![s] = "idle"]
    /\ UNCHANGED <<collectVars, telVars, libVars, runVars, sent, outPipe, attached, delivered,
                   calledAt, attachedAt, inPipe>>

\* Lines 173-180: recv() returns the oldest message of the inbound pipe and
\* subscribeMessage returns its fields.
subscribeMessage_return(s) ==
    /\ subPc[s] = "recv"
    /\ inPipe[s] # <<>>
    /\ got' = [got EXCEPT ![s] = Append(@, Head(inPipe[s]))]
    /\ inPipe' = [inPipe EXCEPT ![s] = Tail(@)]
    /\ subPc' = [subPc EXCEPT ![s] = "idle"]
    /\ UNCHANGED <<collectVars, telVars, libVars, runVars, sent, outPipe, attached, delivered,
                   calledAt, attachedAt>>

(***************************************************************************)
(* BallNet.__init__ of models/onnx/ballnet.py and the Metaball constructor *)
(* that calls it.                                                          *)
(***************************************************************************)
\* A model path: whether it ends with .onnx, whether the file exists.
ModelPaths == [onnx : BOOLEAN, exists : BOOLEAN]

\* Variant: the existence of the file is not tested.
BallNet_init_noexists(path) ==
    IF ~path.onnx THEN "ValueError" ELSE "ok"

\* Lines 35-42: the two tests of the model path, then the ONNX session.
BallNet_init(path) ==
    IF ~path.onnx THEN "ValueError"
    ELSE IF ~path.exists THEN "ValueError"
    ELSE "ok"

\* The two ways the constructor is called: with one positional argument,
\* the BallNetConfig (run_metaball.py:56), and with the keywords name and
\* model_path (metaball.py:50).
BallNetCalls == {"config", "keywords"}

\* BallNet.__init__(self, name, model_path) has two required parameters:
\* the call with the configuration alone raises TypeError before the body
\* runs.
BallNet_call(call, path) ==
    IF call = "config" THEN "TypeError" ELSE BallNet_init(path)

\* BallNet has not been called.
NoBallNet ==
    [call |-> "none", path |-> [onnx |-> TRUE, exists |-> TRUE],
     result |-> "none"]

\* Metaball.__init__: the camera is created, then BallNet(...) is called,
\* then the publisher is created; an exception of BallNet leaves the
\* constructor and, uncaught in __main__, ends the process before run().
Metaball_init(call, path) ==
    /\ runPc = "init"
    /\ ballnet' = [call |-> call, path |-> path,
                   result |-> BallNet_call(call, path)]
    /\ runPc' = IF ballnet'.result = "ok" THEN "loop" ELSE "failed"
    /\ UNCHANGED <<collectVars, telVars, libVars, runReleased, sent, outPipe,
                   subVars>>

(***************************************************************************)
(* Metaball.run and Metaball.release of scripts/run_metaball.py.           *)
(***************************************************************************)
\* Lines 69-73: Metaball.release, in program order.
Release == <<"camera", "publisher">>

\* Lines 89-116: one tick: read, convert, infer, publish, count the frame.
Metaball_run_tick ==
    /\ runPc = "loop"
    /\ sent < MaxMsgs
    /\ tick_pose' = TickPoseOf(sent + 1)
    /\ pub' = Published(pub, RawFrame(sent + 1), tick_pose')
    /\ UNCHANGED forceVars
    /\ publishMessage(sent + 1)
    /\ UNCHANGED <<collectVars, libVars, runVars, subVars>>

\* Lines 117-121: KeyboardInterrupt, or any other exception raised inside a
\* tick, leaves the loop through the finally block.
Metaball_run_exit ==
    /\ runPc = "loop"
    /\ runPc' = "release"
    /\ UNCHANGED <<collectVars, telVars, libVars, runReleased, ballnet, sent,
                   outPipe, subVars>>

\* The resource Metaball.release releases next.
ReleaseStep(done) == Release[Len(done) + 1]

\* Lines 64-73: self.camera.release(); self.metaball_publisher.close()
Metaball_release ==
    /\ runPc = "release"
    /\ runReleased' = Append(runReleased, ReleaseStep(runReleased))
    /\ runPc' = IF Len(runReleased') = Len(Release) THEN "done" ELSE "release"
    /\ UNCHANGED <<collectVars, telVars, libVars, ballnet, sent, outPipe, subVars>>

Metaball ==
    \/ \E call \in BallNetCalls, path \in ModelPaths : Metaball_init(call, path)
    \/ Metaball_run_tick
    \/ Metaball_release

(***************************************************************************)
(* CameraSubscriber of modules/zmq/camera.py: a SUB socket with the same   *)
(* hwm and conflate defaults, read through a poller with a timeout.  The   *)
(* camera publisher is outside the repository: its messages arrive in the  *)
(* inbound pipe, numbered in order, each a well-formed Camera message.     *)
(***************************************************************************)
\* Lines 46-50: the SUB socket's set_hwm(hwm) and setsockopt(CONFLATE, conflate).
CameraWrite(p, m) == PipeWrite(p, m, Hwm, Conflate)

\* A camera message reaches the subscriber's socket.
Camera_arrive ==
    /\ camPc # "off"
    /\ camSent < MaxCamMsgs
    /\ camSent' = camSent + 1
    /\ camPipe' = CameraWrite(camPipe, camSent + 1)
    /\ UNCHANGED <<collectVars, telVars, chanVars, usbVars, camPc, camWaited, camOut>>

\* poller.poll(timeout) has an event to report: POLLIN, a message is buffered.
PollReady(p) == p # <<>>

\* Variant: a poll without a timeout never gives up.
PollExpired_never(waited, timeout) == FALSE

\* poller.poll(timeout) gives up: timeout milliseconds have passed.
PollExpired(waited, timeout) == waited >= timeout

\* An outcome of subscribeMessage: the image of message img, or RuntimeError.
Returned(m) == [raised |-> FALSE, img |-> m]

Raised == [raised |-> TRUE, img |-> 0]

\* Line 71: subscribeMessage enters self.poller.poll(self.timeout).
CameraSubscriber_call ==
    /\ camPc = "idle"
    /\ Len(camOut) < MaxCalls
    /\ camPc' = "poll"
    /\ camWaited' = 0
    /\ UNCHANGED <<collectVars, telVars, chanVars, usbVars, camPipe, camSent, camOut>>

\* Line 71: a clock tick passes inside poll with nothing to report.
CameraSubscriber_wait ==
    /\ camPc = "poll"
    /\ ~PollReady(camPipe)
    /\ ~PollExpired(camWaited, Timeout)
    /\ camWaited <= Timeout
    /\ camWaited' = camWaited + 1
    /\ UNCHANGED <<collectVars, telVars, chanVars, usbVars, camPc, camPipe, camSent, camOut>>

\* Line 71: poll returns the socket: a message is buffered.
CameraSubscriber_ready ==
    /\ camPc = "poll"
    /\ PollReady(camPipe)
    /\ camPc' = "recv"
    /\ UNCHANGED <<collectVars, telVars, chanVars, usbVars, camPipe, camWaited, camSent, camOut>>

\* Lines 73-79: recv() takes the buffered message, which is parsed, and its
\* image is returned.
CameraSubscriber_recv ==
    /\ camPc = "recv"
    /\ camPipe # <<>>
    /\ camOut' = Append(camOut, Returned(Head(camPipe)))
    /\ camPipe' = Tail(camPipe)
    /\ camPc' = "idle"
    /\ UNCHANGED <<collectVars, telVars, chanVars, usbVars, camWaited, camSent>>

\* Lines 80-81: poll returned nothing: raise RuntimeError.
CameraSubscriber_raise ==
    /\ camPc = "poll"
    /\ ~PollReady(camPipe)
    /\ PollExpired(camWaited, Timeout)
    /\ camOut' = Append(camOut, Raised)
    /\ camPc' = "idle"
    /\ UNCHANGED <<collectVars, telVars, chanVars, usbVars, camPipe, camWaited, camSent>>

CameraSubscriber_subscribeMessage ==
    \/ CameraSubscriber_call
    \/ CameraSubscriber_wait
    \/ CameraSubscriber_ready
    \/ CameraSubscriber_recv
    \/ CameraSubscriber_raise

(***************************************************************************)
(* UsbCamera: the pose filter.                                             *)
(***************************************************************************)
\* Line 377: def pose_filter(self, pose, frame=5).
frame == 5

\* Variant: nothing is evicted.
Window_keep(list, pose, fr) == Append(list, pose)

\* Lines 393-399: the window after the new pose is appended.
Window(list, pose, fr) ==
    IF Len(list) < fr THEN Append(list, pose)
    ELSE Append(Tail(list), pose)

\* spR.from_rotvec(rvec_list).mean().as_rotvec() of rotation vectors that
\* all denote one rotation: that rotation.
RotMean(rs) ==
    CHOOSE r \in CanonRvecs : \A i \in DOMAIN rs : from_rotvec(rs[i]) = CanonRmats[r]

\* Lines 402-408: the filtered pose, from the window.
MeanPose(list) ==
    Pose(MeanVec([i \in DOMAIN list |-> list[i].t]),
         RotMean([i \in DOMAIN list |-> list[i].r]))

\* Variant: the window keeps the raw pose.
Overwrite_raw(list, filtered) == list

\* Line 411: self.pose_list[-1] = filtered_pose
Overwrite(list, filtered) == [list EXCEPT ![Len(list)] = filtered]

\* Lines 393-414: pose_filter: what it returns and the window it leaves.
pose_filter_ret(list, pose, fr) == MeanPose(Window(list, pose, fr))

pose_filter_list(list, pose, fr) ==
    Overwrite(Window(list, pose, fr), pose_filter_ret(list, pose, fr))

(***************************************************************************)
(* The rotation mean of pose_filter on rotation vectors about one          *)
(* coordinate axis, their angles in degrees, multiples of 10.  Rotation    *)
(* .mean() is the chordal L2 mean: the rotation whose quaternion is the    *)
(* eigenvector of the largest eigenvalue of the sum of q q^T.  For         *)
(* rotations about one axis, q = (cos(a/2), sin(a/2) n), that is the angle *)
(* A about the same axis which maximises the sum of cos(a_i - A).          *)
(***************************************************************************)
\* 10000 cos of 0, 10, ..., 90 degrees, rounded.
CosTable == <<10000, 9848, 9397, 8660, 7660, 6428, 5000, 3420, 1736, 0>>

\* 10000 cos(a), a a multiple of 10 degrees.
CosDeg(a) ==
    LET m == a % 360
    IN  IF m <= 90 THEN CosTable[(m \div 10) + 1]
        ELSE IF m <= 180 THEN -CosTable[((180 - m) \div 10) + 1]
        ELSE IF m <= 270 THEN -CosTable[((m - 180) \div 10) + 1]
        ELSE CosTable[((360 - m) \div 10) + 1]

\* The angles as_rotvec() returns, on the grid: -170, ..., 180.
DegGrid == {10 * k : k \in -17..18}

\* The axis of a rotation vector about a coordinate axis, and its angle.
AxisOf(r) == IF r[1] # 0 THEN 1 ELSE IF r[2] # 0 THEN 2 ELSE 3

AngleOf(r) == r[AxisOf(r)]

RvecDeg(axis, a) == [j \in 1..3 |-> IF j = axis THEN a ELSE 0]

\* The cosines of the grid, computed once: CosGrid[k] is 10000 cos(10 k).
CosGrid == [k \in 0..35 |-> CosDeg(10 * k)]

RECURSIVE SumCos(_, _)
SumCos(as, A) ==
    IF as = <<>> THEN 0
    ELSE CosGrid[((Head(as) - A) % 360) \div 10] + SumCos(Tail(as), A)

\* The largest sum of cos(a_i - A) over the angles A = 10 k, ..., 180.
RECURSIVE MaxSumCos(_, _)
MaxSumCos(as, k) ==
    IF k = 18 THEN SumCos(as, 180)
    ELSE Max(SumCos(as, 10 * k), MaxSumCos(as, k + 1))

\* The angles of the grid at which the sum of cos(a_i - A) is largest.
MeanAngles(as) ==
    LET largest == MaxSumCos(as, -17)
    IN  {A \in DegGrid : SumCos(as, A) = largest}

RECURSIVE SumInt(_)
SumInt(as) == IF as = <<>> THEN 0 ELSE Head(as) + SumInt(Tail(as))

\* Variant: the mean of the rotation vectors component by component,
\* rounded down to the grid.
RotMeanDeg_naive(rs) ==
    LET axis == AxisOf(rs[1])
        as == [i \in DOMAIN rs |-> AngleOf(rs[i])]
    IN  RvecDeg(axis, 10 * ((SumInt(as) \div Len(as)) \div 10))

\* Line 405: spR.from_rotvec(rvec_list).mean().as_rotvec(), for rotation
\* vectors about one axis whose mean is on the grid.
RotMeanDeg(rs) ==
    LET axis == AxisOf(rs[1])
        as == [i \in DOMAIN rs |-> AngleOf(rs[i])]
    IN  RvecDeg(axis, CHOOSE A \in MeanAngles(as) : TRUE)

\* Lines 402-408: the filtered pose, from a window of such poses.
MeanPoseDeg(list) ==
    Pose(MeanVec([i \in DOMAIN list |-> list[i].t]),
         RotMeanDeg([i \in DOMAIN list |-> list[i].r]))

\* Number of poses pushed into the filter with rotation vectors in degrees.
MaxDegPushes == 2

\* The rotation vectors pushed: about one coordinate axis, the angle on
\* the grid and not 0.
DegRvecs == {RvecDeg(axis, a) : axis \in 1..3, a \in DegGrid \ {0}}

\* Lines 377-414: pose_filter called with a pose whose rotation is about
\* the axis of the window's poses, the mean of the new window being one
\* angle of the grid.
pose_filter_deg(r) ==
    /\ usbPc = "filter"
    /\ Len(pushes) < MaxDegPushes
    /\ \A i \in DOMAIN pose_list : AxisOf(pose_list[i].r) = AxisOf(r)
    /\ LET pose == Pose(RatVec(<<0, 0, 0>>), r)
           window == Window(pose_list, pose, frame)
       IN  /\ \E m \in {MeanAngles([i \in DOMAIN window |->
                                        AngleOf(window[i].r)])} :
                  Cardinality(m) = 1
           /\ \E filtered \in {MeanPoseDeg(window)} :
                  /\ pose_list' = Overwrite(window, filtered)
                  /\ outs' = Append(outs, filtered)
           /\ pushes' = Append(pushes, pose)
    /\ UNCHANGED <<collectVars, telVars, chanVars, camVars, usbPc, init_pose,
                   filter_on, filter_frame, last_pose, first_frame, cam_read,
                   self_pose, reads, conv>>

(***************************************************************************)
(* UsbCamera: reading frames and calling the conversions.  The camera and  *)
(* the marker detector are outside the repository: a frame either shows no *)
(* marker or yields a detected pose.                                       *)
(***************************************************************************)
NoMarker == [found |-> FALSE, pose |-> Zeros6]

Detected(p) == [found |-> TRUE, pose |-> p]

\* Translations and rotation vectors of detected poses, in mm and quarter turns.
DetTvecs == {<<0, 0, 0>>, <<12, 0, 6>>, <<30, 0, 0>>}

FilterTvecs == {<<0, 0, 0>>, <<10, 0, 5>>}

DetRvecs == {<<0, 0, 0>>, <<0, 0, 1>>}

\* The frames a read may see.  With the filter on, the detected poses of a
\* run share one rotation (RotMean is defined on such windows) and lie
\* within the jump gate of each other.
Frames(on, list) ==
    IF on
    THEN {Detected(Pose(RatVec(t), r)) : t \in FilterTvecs,
              r \in {q \in DetRvecs : \A i \in DOMAIN list : list[i].r = q}}
    ELSE {NoMarker} \cup
         {Detected(Pose(RatVec(t), r)) : t \in DetTvecs, r \in DetRvecs}

\* Lines 193-204: the pose img2pose returns for a frame.
img2pose(f, on, list) ==
    IF ~f.found THEN Zeros6
    ELSE IF on THEN pose_filter_ret(list, f.pose, frame)
    ELSE f.pose

\* Line 235: np.linalg.norm(pose[:3] - self.last_pose[:3]) > 20
JumpGate == 20

\* Variant: no pose is rejected.
JumpRejected_never(pose, last) == FALSE

\* The norm is compared through its square; when no component of the
\* difference exceeds half the gate the norm cannot exceed it, and the
\* squares need not be computed.
JumpRejected(pose, last) ==
    LET d == [j \in 1..3 |-> RatSub(pose.t[j], last.t[j])]
    IN  IF \A j \in 1..3 : 2 * Abs(d[j][1]) <= JumpGate * d[j][2]
        THEN FALSE
        ELSE RatGt(RatSum([j \in 1..3 |-> RatMul(d[j], d[j])]),
                   Rat(JumpGate * JumpGate))

\* The conversions are exercised until this many frames have been read.
MaxConvReads == 2

\* Lines 144-148: ret, img = self.camera.read(); when ret is false a
\* ValueError is constructed and dropped (there is no raise), and img, which
\* is None then, is returned.
read_img(ret) ==
    [raised |-> "none", img |-> IF ret THEN "frame" ELSE "None"]

\* No read has been made.
NoRead ==
    [call |-> "none", ret |-> TRUE, raised |-> "none", img |-> "None",
     marker |-> FALSE, raw |-> Zeros6]

\* The record of a read made by call, camera.read() having returned ret;
\* raw is the pose img2pose returned for the frame, if it was called.
CamRead(call, ret, found) ==
    [call |-> call, ret |-> ret, raised |-> read_img(ret).raised,
     img |-> read_img(ret).img, marker |-> found, raw |-> Zeros6]

\* No conversion has been called.
NoCall == [fn |-> "none", arg |-> Zeros6, ret |-> Zeros6]

\* Lines 225-242: the body of read_img_pose on a frame f that was read,
\* with the img2pose it calls.
read_img_pose(f) ==
    /\ \E p \in {img2pose(f, filter_on, pose_list)} :
          /\ \E last \in {IF first_frame THEN p ELSE last_pose} :
                \E emitted \in {IF JumpRejected(p, last) THEN last ELSE p} :
                   /\ self_pose' = emitted
                   /\ last_pose' = emitted
          /\ IF f.found /\ filter_on
             THEN /\ pose_list' = pose_filter_list(pose_list, f.pose, frame)
                  /\ pushes' = Append(pushes, f.pose)
                  /\ outs' = Append(outs, p)
             ELSE UNCHANGED <<pose_list, pushes, outs>>
          /\ cam_read' = [CamRead("read_img_pose", TRUE, f.found)
                            EXCEPT !.raw = p]
    /\ first_frame' = FALSE

\* Lines 214-242: a call of read_img_pose, by __init__ (cal_init_pose) or by
\* the owner of the constructed camera.
UsbCamera_read_img_pose(f) ==
    /\ usbPc \in {"init", "ready"}
    /\ reads < MaxReads
    /\ reads' = reads + 1
    /\ read_img_pose(f)
    /\ conv' = IF reads' <= MaxConvReads THEN conv ELSE NoCall
    /\ UNCHANGED <<collectVars, telVars, chanVars, camVars, usbPc, init_pose, filter_on,
                   filter_frame>>

\* Lines 228-231 when the camera delivers no frame: read_img returns None,
\* and cv2.cvtColor, the first statement of img2pose, raises cv2.error on it.
\* The exception leaves read_img_pose before any attribute is assigned; in
\* __init__ (cal_init_pose) it ends the construction.
UsbCamera_read_img_pose_noframe ==
    /\ usbPc \in {"init", "ready"}
    /\ reads < MaxReads
    /\ reads' = reads + 1
    /\ cam_read' = CamRead("read_img_pose", FALSE, FALSE)
    /\ usbPc' = IF usbPc = "init" THEN "failed" ELSE usbPc
    /\ conv' = IF reads' <= MaxConvReads THEN conv ELSE NoCall
    /\ UNCHANGED <<collectVars, telVars, chanVars, camVars, init_pose, filter_on,
                   filter_frame, pose_list, last_pose, first_frame, self_pose,
                   pushes, outs>>

\* Lines 84-86: __init__ reads five frames with read_img and discards them,
\* before cal_init_pose.
UsbCamera_read_img(ret) ==
    /\ usbPc = "init"
    /\ reads = 0
    /\ cam_read' = CamRead("read_img", ret, FALSE)
    /\ UNCHANGED <<collectVars, telVars, chanVars, camVars, usbPc, init_pose, filter_on,
                   filter_frame, pose_list, last_pose, first_frame, self_pose,
                   reads, pushes, outs, conv>>

\* The initial poses cal_init_pose may compute.
InitPoses ==
    {Pose(RatVec(t), r) : t \in FilterTvecs,
                          r \in {<<0, 0, 0>>, <<0, 0, 1>>, <<2, 0, 0>>}}

\* Lines 83-92: __init__ completes: cal_init_pose has read its frames and
\* returns their mean, some pose, from which init_tvec and init_rmat are set.
UsbCamera_init_done ==
    /\ usbPc = "init"
    /\ ~first_frame
    /\ \E p \in InitPoses : init_pose' = p
    /\ usbPc' = "ready"
    /\ UNCHANGED <<collectVars, telVars, chanVars, camVars, filter_on, filter_frame,
                   pose_list, last_pose, first_frame, cam_read, self_pose, reads,
                   pushes,
                   outs, conv>>

\* The poses the conversions are called with; one rotation vector is not
\* in as_rotvec's range (three quarter turns).
ConvPoses ==
    {Pose(RatVec(<<10, 0, 5>>), r) : r \in {<<0, 0, 1>>, <<0, 2, 0>>, <<3, 0, 0>>}}

\* A pose whose components are all different, for pose_marker2cam.
GenericPose == Pose(RatVec(<<1, 2, 3>>), <<4, 5, 6>>)

\* A call of pose2ref on a constructed camera.
UsbCamera_pose2ref(pose) ==
    /\ usbPc = "ready"
    /\ reads <= MaxConvReads
    /\ AxisAligned(pose.r) /\ SameAxis(init_pose.r, pose.r)
    /\ conv' = [fn |-> "pose2ref", arg |-> pose, ret |-> pose2ref(init_pose, pose)]
    /\ UNCHANGED <<collectVars, telVars, chanVars, camVars, usbPc, init_pose, filter_on,
                   filter_frame, pose_list, last_pose, first_frame, cam_read,
                   self_pose,
                   reads, pushes, outs>>

\* A call of pose_marker2cam on a constructed camera.
UsbCamera_pose_marker2cam(pose) ==
    /\ usbPc = "ready"
    /\ reads <= MaxConvReads
    /\ conv' = [fn |-> "pose_marker2cam", arg |-> pose, ret |-> pose_marker2cam(pose)]
    /\ UNCHANGED <<collectVars, telVars, chanVars, camVars, usbPc, init_pose, filter_on,
                   filter_frame, pose_list, last_pose, first_frame, cam_read,
                   self_pose,
                   reads, pushes, outs>>

\* A call of pose_euler on a constructed camera.
UsbCamera_pose_euler(pose) ==
    /\ usbPc = "ready"
    /\ reads <= MaxConvReads
    /\ AxisAligned(pose.r)
    /\ conv' = [fn |-> "pose_euler", arg |-> pose, ret |-> pose_euler(pose)]
    /\ UNCHANGED <<collectVars, telVars, chanVars, camVars, usbPc, init_pose, filter_on,
                   filter_frame, pose_list, last_pose, first_frame, cam_read,
                   self_pose,
                   reads, pushes, outs>>

\* The calls made on a UsbCamera, by its constructor or by its owner.
UsbCamera ==
    /\ usbPc \in {"init", "ready"}
    /\ \/ \E f \in Frames(filter_on, pose_list) : UsbCamera_read_img_pose(f)
       \/ UsbCamera_read_img_pose_noframe
       \/ \E ret \in BOOLEAN : UsbCamera_read_img(ret)
       \/ UsbCamera_init_done
       \/ \E p \in ConvPoses \cup {init_pose} : UsbCamera_pose2ref(p)
       \/ \E p \in ConvPoses \cup {GenericPose} : UsbCamera_pose_marker2cam(p)
       \/ \E p \in ConvPoses \cup {init_pose} : UsbCamera_pose_euler(p)

(***************************************************************************)
(* The programs.                                                           *)
(***************************************************************************)
\* The channel before any message: no subscriber is connected.
InitChannel ==
    /\ runReleased = <<>>
    /\ ballnet = NoBallNet
    /\ sent = 0
    /\ attached = [s \in Subscribers |-> FALSE]
    /\ outPipe = [s \in Subscribers |-> <<>>]
    /\ inPipe = [s \in Subscribers |-> <<>>]
    /\ subPc = [s \in Subscribers |-> "idle"]
    /\ got = [s \in Subscribers |-> <<>>]
    /\ delivered = [s \in Subscribers |-> 0]
    /\ calledAt = [s \in Subscribers |-> 0]
    /\ attachedAt = [s \in Subscribers |-> 0]

\* Line 76: force = np.zeros(6), array 0; array n is the one that
\* force_sensor2global returns in tick n.
InitForce ==
    /\ heap = [o \in 0..MaxTicks |-> ZeroForce]
    /\ force = 0
    /\ buffer = <<>>

InitQueue ==
    /\ InitForce
    /\ is_rec = FALSE
    /\ should_stop = FALSE
    /\ queue = <<>>
    /\ tick = 0
    /\ released = <<>>
    /\ drops = 0
    /\ recorded_data = None
    /\ count = 0
    /\ disk = <<>>
    /\ sess = 0
    /\ enq = <<>>
    /\ puts = 0
    /\ gets = 0
    /\ persistErrs = 0

\* collect_real_data.py: main has started both processes and the listener.
InitCollect ==
    /\ acqPc = "tick"
    /\ recPc = "L156"
    /\ mainPc = "wait"
    /\ listening = TRUE
    /\ runPc = "off"

\* run_metaball.py: __main__ is about to construct Metaball().
InitMetaball ==
    /\ acqPc = "off"
    /\ recPc = "off"
    /\ mainPc = "off"
    /\ listening = FALSE
    /\ runPc = "init"

\* Neither script runs: a library class is used on its own.
InitOff ==
    /\ acqPc = "off"
    /\ recPc = "off"
    /\ mainPc = "off"
    /\ listening = FALSE
    /\ runPc = "off"

\* Lines 13-81: UsbCamera.__init__ up to the initial-pose loop (pc = "init"),
\* the constructed camera of a script, its initial pose one of inits
\* (pc = "script"), or no camera (pc = "off").
InitUsbCamera(pc, inits) ==
    /\ usbPc = pc
    /\ init_pose \in inits
    /\ filter_on \in (IF pc = "init" THEN BOOLEAN ELSE {FALSE})
    /\ filter_frame \in (IF pc = "init" THEN {3, frame} ELSE {frame})
    /\ pose_list = <<>>
    /\ last_pose = Zeros6
    /\ first_frame = TRUE
    /\ cam_read = NoRead
    /\ self_pose = Zeros6
    /\ reads = 0
    /\ pushes = <<>>
    /\ outs = <<>>
    /\ conv = NoCall
    /\ tick_pose = Zeros6
    /\ pub = NoMessage

\* Lines 44-58: CameraSubscriber.__init__ (pc = "idle"), or no CameraSubscriber.
InitCameraSubscriber(pc) ==
    /\ camPc = pc
    /\ camPipe = <<>>
    /\ camWaited = 0
    /\ camSent = 0
    /\ camOut = <<>>

Init ==
    /\ InitQueue
    /\ InitChannel
    /\ \/ /\ InitCollect
          /\ InitCameraSubscriber("off")
          /\ InitUsbCamera("script", {ScriptInitPose})
       \/ /\ InitMetaball
          /\ InitCameraSubscriber("off")
          /\ InitUsbCamera("script", {ScriptInitPose})
       \/ InitOff /\ InitCameraSubscriber("idle") /\ InitUsbCamera("off", {Zeros6})
       \/ InitOff /\ InitCameraSubscriber("off") /\ InitUsbCamera("init", {Zeros6})

Next ==
    \/ read_data
    \/ read_data_interrupt
    \/ read_data_error
    \/ record_data
    \/ record_data_interrupt
    \/ \E key \in Keys : on_press(key)
    \/ main
    \/ main_interrupt
    \/ Metaball
    \/ Metaball_run_exit
    \/ \E s \in Subscribers : MetaballSubscriber_init(s)
    \/ \E s \in Subscribers : subscribeMessage_call(s)
    \/ \E s \in Subscribers : subscribeMessage_return(s)
    \/ \E s \in Subscribers : Transfer(s)
    \/ Camera_arrive
    \/ CameraSubscriber_subscribeMessage
    \/ UsbCamera

Spec == Init /\ [][Next]_vars

\* The processes and threads are scheduled by the operating system: each
\* keeps taking steps while it has one to take.  Key presses, interrupts,
\* collaborator errors and the arrival of subscribers are the environment's
\* and need not happen; Metaball.run need not publish another message.
FairSpec ==
    /\ Spec
    /\ WF_vars(read_data)
    /\ WF_vars(record_data)
    /\ WF_vars(main)
    /\ WF_vars(Metaball_release)
    /\ \A s \in Subscribers : WF_vars(Transfer(s))
    /\ \A s \in Subscribers : WF_vars(subscribeMessage_return(s))

\* The pose filter of a UsbCamera, fed with poses whose rotation vectors
\* are given in degrees.
InitFilter ==
    /\ InitQueue
    /\ InitChannel
    /\ InitOff
    /\ InitCameraSubscriber("off")
    /\ InitUsbCamera("filter", {Zeros6})

NextFilter == \E r \in DegRvecs : pose_filter_deg(r)

FilterSpec == InitFilter /\ [][NextFilter]_vars

\* The loop of a script around a constructed camera without the filter:
\* run_metaball.py and collect_real_data.py call read_img_pose once per tick,
\* for as long as the process runs, and count the frames up to a limit at
\* which the count starts again (the FPS report).
MaxFrameCount == 3

\* Lines 110-116 of run_metaball.py: the tick counts its frame.
FrameCounted == reads' = (reads + 1) % MaxFrameCount

read_img_pose_tick(f) ==
    /\ usbPc = "loop"
    /\ read_img_pose(f)
    /\ FrameCounted
    /\ UNCHANGED <<collectVars, telVars, chanVars, camVars, usbPc, init_pose,
                   filter_on, filter_frame, conv>>

InitGate ==
    /\ InitQueue
    /\ InitChannel
    /\ InitOff
    /\ InitCameraSubscriber("off")
    /\ InitUsbCamera("loop", {Zeros6})

\* The frames of the loop: those of Frames, and the marker farther away.
GateFrames ==
    Frames(FALSE, <<>>) \cup
    {Detected(Pose(RatVec(t), r)) : t \in {<<45, 0, 0>>, <<60, 0, 0>>},
                                    r \in DetRvecs}

NextGate == \E f \in GateFrames : read_img_pose_tick(f)

\* The loop keeps running: a tick follows a tick, each counting its frame.
GateSpec == InitGate /\ [][NextGate]_vars /\ WF_reads(FrameCounted)

\* collect_real_data.py with the force arrays and the feeder thread of the
\* queue: read_data's ticks, the feeder thread, record_data, and the key r.
InitForceSpec ==
    /\ InitQueue
    /\ InitChannel
    /\ acqPc = "get_real_data"
    /\ recPc = "L156"
    /\ mainPc = "wait"
    /\ listening = TRUE
    /\ runPc = "off"
    /\ InitCameraSubscriber("off")
    /\ InitUsbCamera("script", {ScriptInitPose})

NextForce ==
    \/ read_data_get_real_data
    \/ read_data_write_f
    \/ read_data_write_t
    \/ read_data_convert
    \/ Queue_put
    \/ Queue_feed
    \/ record_data
    \/ on_press("r")

ForceSpec == InitForceSpec /\ [][NextForce]_vars

(***************************************************************************)
(* Properties of the data-collection program.                              *)
(***************************************************************************)
IsPrefix(s, t) == Len(s) <= Len(t) /\ \A i \in DOMAIN s : s[i] = t[i]

\* The sample ids that have a row in some pose.csv, a row in the force.csv
\* beside it and an image file in the same directory.
PersistedIds ==
    UNION {Range(disk[k].pose) \cap Range(disk[k].force) \cap Range(disk[k].images) :
           k \in DOMAIN disk}

\* The first recording session is over and record_data has flushed it: the
\* flag is off again, read_data holds no sample it still means to enqueue,
\* a batch is on disk and the recorder is back at the top of its loop.
FirstSessionFlushed ==
    /\ sess = 1
    /\ ~is_rec
    /\ acqPc # "put"
    /\ disk # <<>>
    /\ recPc = "L156"

\* C1: after a session (start, k samples enqueued, stop) the flush has
\* persisted exactly the k enqueued samples, as k pose rows, k force rows and
\* k image files, and the recorder is Idle with its buffer absent, whatever
\* the interleaving of read_data, record_data and on_press.
C1_SessionPersistsAllEnqueued ==
    FirstSessionFlushed =>
        /\ recorded_data.none
        /\ Len(disk) = 1
        /\ disk[1].pose = enq
        /\ disk[1].force = enq
        /\ disk[1].images = enq

\* C2: when record_data has terminated, every sample it held in its buffer
\* is persisted: a stop request never loses buffered samples.
C2_StopFlushesBuffer ==
    Terminated(recPc) =>
        \A i \in DOMAIN recorded_data.list :
            recorded_data.list[i].id \in PersistedIds

\* C3: once should_stop is set, read_data and record_data both leave their
\* loops, whatever state they were in.
C3_BothLoopsExit ==
    should_stop ~> (Terminated(acqPc) /\ Terminated(recPc))

\* C4: the queue never holds more than MaxSize samples, and when read_data
\* has attempted more than MaxSize puts while record_data has taken nothing,
\* exactly MaxSize samples are retained and puts - MaxSize drops are logged.
C4_Backpressure ==
    /\ Len(queue) <= MaxSize
    /\ (gets = 0 /\ puts > MaxSize) =>
           /\ Len(queue) = MaxSize
           /\ drops = puts - MaxSize

\* C4 witness: more puts than the capacity, nothing taken, drops logged.
C4_Witness ==
    gets = 0 /\ puts > MaxSize /\ drops > 0 /\ Len(queue) = MaxSize

\* C5: with the queue full, the put of a tick does not block: it can be
\* taken, it discards the new sample, keeps the queued ones, logs the drop
\* and leaves the loop running at its stop check, from where, unless a stop
\* was requested, the next tick is acquired and published.
C5_FullQueueTickCompletes ==
    /\ (acqPc = "put" /\ Len(queue) >= MaxSize) =>
           ENABLED (/\ read_data_put
                    /\ queue' = queue
                    /\ drops' = drops + 1
                    /\ tick' = tick
                    /\ acqPc' = "checkstop")
    /\ (acqPc = "checkstop" /\ ~should_stop /\ Len(queue) >= MaxSize) =>
           ENABLED (read_data_checkstop /\ acqPc' = "tick" /\ queue' = queue)
    /\ (acqPc = "tick" /\ tick < MaxTicks /\ Len(queue) >= MaxSize) =>
           ENABLED (read_data_tick /\ tick' = tick + 1 /\ queue' = queue)

\* C5 witness: a tick that found the queue full has dropped its sample and
\* the loop is at the next tick with the queue still full.
C5_Witness ==
    acqPc = "tick" /\ drops > 0 /\ Len(queue) = MaxSize /\ is_rec /\ gets = 0

\* C8: on every way out of the tick loop the finally block disconnects the
\* force sensor, releases the camera and closes the publisher, each once and
\* in that order; the process is done only when all three are released, and
\* no tick is acquired or published once the loop has been left.  The same
\* holds of Metaball.run, which releases the camera and then closes the
\* publisher.
C8_TeardownInOrder ==
    [][/\ IsPrefix(released', Teardown)
       /\ (acqPc' = "done") = (released' = Teardown)
       /\ InLoop(acqPc') => released' = <<>>
       /\ ~InLoop(acqPc) => tick' = tick
       /\ IsPrefix(runReleased', Release)
       /\ (runPc' = "done") = (runReleased' = Release)
       /\ runPc' = "loop" => runReleased' = <<>>
       /\ runPc # "loop" => sent' = sent]_vars

\* C8 witness: the loop was left on an exception (no stop was requested)
\* after ticks were published, and the teardown is complete.
C8_Witness ==
    acqPc = "done" /\ released = Teardown /\ tick > 0 /\ ~should_stop

\* C9: once should_stop is set main is never blocked: until it has exited it
\* always has a step that moves it on, through the two joins to the exit,
\* even while a worker has not terminated.
C9_MainNeverBlocked ==
    (should_stop /\ mainPc # "exit") => ENABLED (main /\ mainPc' # mainPc)

\* C9 witness: main has exited although record_data is still in its loop.
C9_Witness ==
    mainPc = "exit" /\ should_stop /\ RecInLoop(recPc)

(***************************************************************************)
(* Properties of the telemetry channel.                                    *)
(***************************************************************************)
Last(q) == q[Len(q)]

\* C6, read to the letter: a receive returns the newest message published before the
\* receive was called (or a later one), never an older one that was still
\* buffered.
C6_ReceiveReturnsNewestSent ==
    [][\A s \in Subscribers :
          got'[s] # got[s] => Last(got'[s]) >= calledAt[s]]_vars

\* C6, counting delivery: a subscriber buffers at most one message, the newest that
\* has reached its socket; a receive returns that message, which is newer
\* than every message returned before and is the newest published once the
\* publisher's side holds no message still to be delivered to the subscriber.
C6_ReceiveReturnsNewestDelivered ==
    [][\A s \in Subscribers :
          /\ Len(inPipe'[s]) <= 1
          /\ got'[s] # got[s] =>
                /\ got'[s] = Append(got[s], delivered[s])
                /\ \A i \in DOMAIN got[s] : got[s][i] < delivered[s]
                /\ outPipe[s] = <<>> => delivered[s] = sent]_vars

\* C6 witness: every message was published while the subscriber was connected
\* and did not receive, and its first receive, called after the last one was
\* published, returned the last one.
C6_Witness ==
    \E s \in Subscribers :
        /\ attached[s] /\ attachedAt[s] = 0
        /\ calledAt[s] = MaxMsgs
        /\ got[s] = <<MaxMsgs>>

\* C7: a subscribeMessage call never blocks indefinitely: it ends, with a
\* message or, when none arrives, with a timeout.
C7_ReceiveTimesOut ==
    \A s \in Subscribers : (subPc[s] = "recv") ~> (subPc[s] \in {"idle", "timeout"})

\* C10: publishMessage can always be taken while Metaball.run is in its
\* loop, with no subscriber connected as well as with connected subscribers
\* that never receive, and the publisher holds at most one pending message
\* per subscriber.
C10_PublishNeverBlocks ==
    /\ \A s \in Subscribers : Len(outPipe[s]) <= 1
    /\ (runPc = "loop" /\ sent < MaxMsgs) =>
           ENABLED (Metaball_run_tick /\ sent' = sent + 1)

\* C10 witness: every message was published, the first ones with no
\* subscriber connected, the later ones to a subscriber that never received.
C10_Witness ==
    /\ sent = MaxMsgs
    /\ \E s \in Subscribers :
          /\ attached[s] /\ got[s] = <<>> /\ subPc[s] = "idle"
          /\ outPipe[s] = <<MaxMsgs>>
          /\ delivered[s] = MaxMsgs - 1
    /\ \E s \in Subscribers : ~attached[s]

\* C11: a subscriber that connected after k messages were published holds
\* and receives none of them older than the k-th, and the k-th at most once:
\* no backlog is delivered to it.
C11_NoBacklog ==
    \A s \in Subscribers :
        /\ \A i \in DOMAIN got[s] : got[s][i] >= attachedAt[s]
        /\ \A i \in DOMAIN inPipe[s] : inPipe[s][i] >= attachedAt[s]
        /\ \A i \in DOMAIN outPipe[s] : outPipe[s][i] >= attachedAt[s]
        /\ Cardinality({i \in DOMAIN got[s] : got[s][i] <= attachedAt[s]}) <= 1

\* C11 witness: a subscriber connected after two messages were published
\* and has received a message.
C11_Witness ==
    \E s \in Subscribers : attached[s] /\ attachedAt[s] >= 2 /\ got[s] # <<>>

(***************************************************************************)
(* Properties of CameraSubscriber.                                         *)
(***************************************************************************)
\* C12: a subscribeMessage call returns the image of the buffered message
\* when one is there within the timeout and consumes it; it raises only
\* after the full timeout with no message buffered, and then consumes
\* nothing; the wait never exceeds the timeout and the call is never stuck.
C12_ReceiveOrTimeout ==
    /\ [](camPc = "poll" => camWaited <= Timeout)
    /\ [](camPc \in {"poll", "recv"} => ENABLED CameraSubscriber_subscribeMessage)
    /\ []((camPc = "poll" /\ camPipe # <<>>) =>
            ENABLED (CameraSubscriber_ready /\ camPc' = "recv"))
    /\ [][Len(camOut') > Len(camOut) =>
            IF camOut'[Len(camOut')].raised
            THEN /\ camPipe = <<>>
                 /\ camPipe' = camPipe
                 /\ camWaited = Timeout
            ELSE /\ camPipe # <<>>
                 /\ camOut'[Len(camOut')].img = Head(camPipe)
                 /\ camPipe' = Tail(camPipe)
                 /\ camWaited <= Timeout]_vars

\* C12 witness: one call timed out and raised, a later call waited, was
\* reached by a message in time and returned its image.
C12_Witness ==
    /\ camOut = <<Raised, Returned(1)>>
    /\ camWaited > 0
    /\ camPipe = <<>>

(***************************************************************************)
(* Properties of UsbCamera.                                                *)
(***************************************************************************)
Min(a, b) == IF a <= b THEN a ELSE b

\* C13: with the filter on, after k poses were pushed the window of a camera
\* constructed with filter_frame = N holds min(k, N) poses.
C13_WindowLengthIsMinOfPushesAndFilterFrame ==
    filter_on => Len(pose_list) = Min(Len(pushes), filter_frame)

C15_FullWindowEvictsAndKeepsOutput ==
    [][(Len(pushes') > Len(pushes) /\ Len(pose_list) = frame) =>
          LET raw == pushes'[Len(pushes')]
              ret == outs'[Len(outs')]
          IN  /\ Len(pose_list') = frame
              /\ SubSeq(pose_list', 1, frame - 1) = Tail(pose_list)
              /\ ret = MeanPose(Append(Tail(pose_list), raw))
              /\ pose_list'[frame] = ret
              /\ \A i \in 1..frame :
                    pose_list'[i] = outs'[Len(outs') - frame + i]]_vars

\* C15 witness: a pose was pushed into a full window and the newest slot
\* holds the returned pose, which differs from the pose pushed.
C15_Witness ==
    /\ Len(pushes) > frame
    /\ pose_list[frame] = outs[Len(outs)]
    /\ pose_list[frame] # pushes[Len(pushes)]

\* C16: pose2ref of the initial pose itself is the zero pose, whatever the
\* initial pose is.
C16_Pose2RefOfInitialPoseIsZero ==
    (conv.fn = "pose2ref" /\ conv.arg = init_pose) => conv.ret = Zeros6

\* C16 witness: pose2ref was called with an initial pose that has a
\* translation and a rotation.
C16_Witness ==
    /\ conv.fn = "pose2ref"
    /\ conv.arg = init_pose
    /\ init_pose.t # Zeros6.t
    /\ init_pose.r # Zeros6.r

CanonicalPath ==
    [i \in DOMAIN RawPoses |->
        poseVectorToEuler(poseAxisTransfer(
            poseToReferece(ScriptInitPose, RawPoses[i])))]

\* C18: in every tick of read_data and of Metaball.run the published pose is
\* toEuler(axisRemap(toReference(raw pose))), one message is published per
\* tick, and a sample is enqueued only after its tick's message was
\* published, with the pose of that message.
C18_TickPublishesCanonicalPoseThenEnqueuesIt ==
    /\ [](pub.n > 0 =>
            /\ init_pose = ScriptInitPose
            /\ \E i \in DOMAIN RawPoses :
                  pub.raw = RawPoses[i] /\ pub.pose = CanonicalPath[i])
    /\ [](acqPc # "off" => pub.n = tick)
    /\ [](runPc # "off" => pub.n = sent)
    /\ [][enq' # enq =>
            /\ pub' = pub
            /\ Last(queue').id = pub.n
            /\ Last(queue').pose = pub.pose]_vars

\* C18 witness: the sample of the second tick is in the queue, with the pose
\* that was published, which is not the raw pose.
C18_Witness ==
    /\ pub.n = 2
    /\ queue # <<>>
    /\ Last(queue).id = 2
    /\ Last(queue).pose = pub.pose
    /\ pub.pose # pub.raw

\* C19: a call of pose2ref, pose_marker2cam or pose_euler changes no state
\* of the camera (initial pose, filter window, last pose, first-frame flag,
\* current pose, filter settings), and a call with the function and the
\* argument of the call before it, frames having been read in between or
\* not, returns what that call returned.
C19_ConversionsArePure ==
    [][(conv' # conv /\ conv'.fn # "none") =>
          /\ UNCHANGED <<init_pose, pose_list, last_pose, first_frame,
                         self_pose, filter_on, filter_frame>>
          /\ (conv'.fn = conv.fn /\ conv'.arg = conv.arg) =>
                 conv'.ret = conv.ret]_vars

\* C19 witness: a conversion was called with an argument it changes, on a
\* camera whose filter window and last pose are set, after a frame was read
\* since construction.
C19_Witness ==
    /\ conv.fn # "none"
    /\ conv.ret # conv.arg
    /\ pose_list # <<>>
    /\ last_pose # Zeros6
    /\ init_pose # Zeros6
    /\ reads = MaxConvReads

\* C20: on_press sets is_rec to true on r, to false on s, and leaves it
\* alone on any other key, a special key included; it never changes
\* should_stop, and it stops the listener only when should_stop is true.
C20_OnPressSetsRecordingOnly ==
    [][\A key \in Keys : on_press(key) =>
          /\ key = "r" => is_rec'
          /\ key = "s" => ~is_rec'
          /\ key \notin {"r", "s"} => is_rec' = is_rec
          /\ should_stop' = should_stop
          /\ ~listening' => should_stop]_vars

\* C20 witness: r was pressed, then s, and the handler has stopped the
\* listener after should_stop was set, main still waiting.
C20_Witness ==
    /\ sess = 1
    /\ ~is_rec
    /\ should_stop
    /\ ~listening
    /\ mainPc = "wait"

\* A step of read_data, of record_data, of main.
AcqStep == acqPc' # acqPc

RecStep == recPc' # recPc

MainStep == mainPc' # mainPc

C22_PersistFailureAbsorbed ==
    /\ [][persistErrs' > persistErrs =>
            (recPc' = "L156" /\ recorded_data'.none)]_vars
    /\ []((persistErrs > 0 /\ ~should_stop) => RecInLoop(recPc))

\* C23: an error raised by the camera, the force sensor or the publisher
\* inside a tick is absorbed in the acquisition loop, which goes on with the
\* next tick: read_data leaves its loop only on a stop request (the break on
\* should_stop, or a KeyboardInterrupt, whose handler sets should_stop).
C23_TickErrorAbsorbed ==
    [][(InLoop(acqPc) /\ ~InLoop(acqPc')) => should_stop']_vars

\* C24: when a read_img_pose call after the first finds no marker in the
\* frame, it emits the last-known pose, whatever that pose is, and keeps it
\* as the last-known pose.
C24_NoMarkerEmitsLastKnownPose ==
    [][(/\ reads' = reads + 1
        /\ ~first_frame
        /\ cam_read'.ret
        /\ ~cam_read'.marker)
       => (self_pose' = last_pose /\ last_pose' = last_pose)]_vars

\* C26: read_img raises ValueError when the camera delivers no frame, and
\* returns an image only when the read succeeded.
C26_ReadImgRaisesOnFailedRead ==
    cam_read.call # "none" =>
        IF cam_read.ret
        THEN cam_read.raised = "none" /\ cam_read.img = "frame"
        ELSE cam_read.raised = "ValueError" /\ cam_read.img # "frame"

\* C25: when the model path does not end with .onnx or does not exist, the
\* BallNet call of the constructor fails with an error and the process never
\* enters the tick loop: no pose is computed for telemetry and no message
\* is published, then or later.
C25_BadModelPathFailsAtStartup ==
    /\ []((ballnet.call # "none" /\ ~(ballnet.path.onnx /\ ballnet.path.exists))
            => /\ ballnet.result \in {"ValueError", "TypeError"}
               /\ runPc = "failed"
               /\ sent = 0
               /\ pub = NoMessage
               /\ tick_pose = Zeros6)
    /\ [][runPc = "failed" => runPc' = "failed"]_vars

\* C25 witness: the constructor reached the tests of BallNet.__init__ with
\* a path that ends with .onnx and names no file, and the process has
\* failed.
C25_Witness ==
    /\ ballnet.call = "keywords"
    /\ ballnet.path.onnx
    /\ ~ballnet.path.exists
    /\ ballnet.result = "ValueError"
    /\ runPc = "failed"

\* The ids of the samples of a batch, in the order of the buffer.
IdsOf(data) == [i \in 1..Len(data) |-> data[i].id]

\* A flush that persisted the buffer: record_data drops the buffer after a
\* save_data call that raised nothing.
Persisted ==
    /\ recPc = "L160"
    /\ recPc' = "L156"
    /\ ~recorded_data.none
    /\ count > 0
    /\ recorded_data'.none

\* C27: a flush that persists a batch of n samples writes one directory:
\* exactly the image files 0..n-1 (no image file of a higher index is
\* written), and pose.csv and force.csv with exactly n rows each; row i of
\* pose.csv, row i of force.csv and image i are those of the i-th sample of
\* the buffer, and the buffer holds the samples in the order they were
\* enqueued.
C27_BatchWrittenAlignedInOrder ==
    [][Persisted =>
        LET data == recorded_data.list
            n == Len(data)
        IN  /\ n = count
            /\ \A i, j \in 1..n : i < j => data[i].id < data[j].id
            /\ \E k \in DOMAIN disk' :
                  LET old == IF k \in DOMAIN disk THEN disk[k] ELSE EmptyDir
                  IN  /\ \A j \in DOMAIN disk' \ {k} :
                            j \in DOMAIN disk /\ disk'[j] = disk[j]
                      /\ disk'[k].pose = IdsOf(data)
                      /\ disk'[k].force = IdsOf(data)
                      /\ SubSeq(disk'[k].images, 1, n) = IdsOf(data)
                      /\ \A i \in (n + 1)..Len(disk'[k].images) :
                            /\ i <= Len(old.images)
                            /\ disk'[k].images[i] = old.images[i]]_vars

\* C27 witness: two batches were persisted within the same second, into
\* one directory: the second, shorter one replaced the rows, and an image
\* file of the first is still there.
C27_Witness ==
    /\ persistErrs = 0
    /\ Len(disk) = 1
    /\ Len(disk[1].pose) = 1
    /\ Len(disk[1].images) = 2
    /\ disk[1].images[1] = disk[1].pose[1]
    /\ disk[1].images[2] < disk[1].pose[1]

\* C30: a persisted batch holds samples of one recording session only: no
\* two samples of a flushed buffer were enqueued in different sessions,
\* also when samples were left in the queue at a stop command and when a
\* stop and a start follow each other within one poll of record_data.
C30_BatchOfOneSession ==
    [][Persisted =>
        \A i, j \in DOMAIN recorded_data.list :
            recorded_data.list[i].sess = recorded_data.list[j].sess]_vars

\* C29: the recorder allocates its buffer, empty, and resets its counter in
\* one step, the one that sees is_rec true with no buffer (Idle to
\* Recording), and the counter is set to 0 in no other step; whenever the
\* buffer is present the counter is its length; while the buffer stays
\* present, whatever key is pressed, it only grows at its end and the
\* counter does not decrease; and when record_data, not interrupted, sees a
\* stop with an empty buffer, nothing is written and the recorder is Idle
\* again, its buffer absent.
C29_BufferAndCounter ==
    /\ [](~recorded_data.none => count = Len(recorded_data.list))
    /\ [][/\ (recorded_data.none /\ ~recorded_data'.none) =>
              /\ recPc = "L170" /\ is_rec
              /\ recorded_data'.list = <<>>
              /\ count' = 0
          /\ (count' # count /\ count' = 0) =>
              (recorded_data.none /\ ~recorded_data'.none)
          /\ (~recorded_data.none /\ ~recorded_data'.none) =>
              /\ IsPrefix(recorded_data.list, recorded_data'.list)
              /\ count' >= count
          /\ (/\ RecStep /\ recPc = "L160" /\ RecInLoop(recPc')
              /\ ~is_rec /\ ~recorded_data.none /\ count = 0) =>
              /\ disk' = disk
              /\ recorded_data'.none
              /\ recPc' = "L156"]_vars

\* C29 witness: in the second session the buffer holds one sample and the
\* counter is 1, after a first session whose two samples are on disk: the
\* counter was reset when the second session started.
C29_Witness ==
    /\ sess = 2
    /\ is_rec
    /\ ~recorded_data.none
    /\ count = 1
    /\ Len(recorded_data.list) = 1
    /\ Len(disk) = 1
    /\ Len(disk[1].pose) = 2

\* C28: the pose filter, given a rotation vector of +170 degrees and then
\* one of -170 degrees about the same axis (or the two in the other
\* order), returns the rotation of 180 degrees about that axis for the two,
\* not the rotation of 0 degrees.
C28_MeanOfPlusMinus170IsHalfTurn ==
    (/\ Len(pushes) = 2
     /\ {AngleOf(pushes[1].r), AngleOf(pushes[2].r)} = {170, -170})
    => /\ Abs(AngleOf(outs[2].r)) = 180
       /\ AxisOf(outs[2].r) = AxisOf(pushes[1].r)

\* C28 witness: +170 degrees, then -170 degrees about y were pushed.
C28_Witness ==
    /\ Len(pushes) = 2
    /\ pushes[1].r = <<0, 170, 0>>
    /\ pushes[2].r = <<0, -170, 0>>
    /\ Len(outs) = 2

\* C38: should_stop is monotonic: no step of any process (read_data,
\* record_data, the keyboard handler, main) takes it from true to false, and
\* a key press, whatever the key, leaves it as it is.
C38_ShouldStopMonotonic ==
    [][/\ should_stop => should_stop'
       /\ (/\ ~AcqStep /\ ~RecStep /\ ~MainStep
           /\ (is_rec' # is_rec \/ sess' # sess \/ listening' # listening))
          => should_stop' = should_stop]_vars

\* C38 witness: the stop was requested while a session was recording; since
\* then a key press has started a second session and ended the listener,
\* and the three processes have run to their ends.
C38_Witness ==
    /\ should_stop
    /\ sess = 2
    /\ is_rec
    /\ ~listening
    /\ acqPc = "done"
    /\ Terminated(recPc)
    /\ mainPc = "exit"

\* C39: the handles are released on every exit path: when the process of
\* run_metaball.py has ended, after its loop or because the model could not
\* be loaded once the camera was open, the camera has been released; and
\* when read_data has ended, its camera has been released.
C39_HandlesReleasedOnEveryExit ==
    /\ runPc \in {"failed", "done"} => "camera" \in Range(runReleased)
    /\ acqPc = "done" => "camera" \in Range(released)

\* C32: two flushed batches are never written to the same directory: a
\* flush that persists a batch creates a directory of its own and leaves
\* every directory written before as it is.
C32_BatchesInDistinctDirectories ==
    [][Persisted =>
        /\ Len(disk') = Len(disk) + 1
        /\ \A k \in DOMAIN disk : disk'[k] = disk[k]]_vars

\* The sample ids found in a directory, in pose.csv, force.csv or an image.
IdsIn(dir) == Range(dir.pose) \cup Range(dir.force) \cup Range(dir.images)

\* C33: no sample is persisted more than once: the samples of a batch that
\* is persisted are pairwise different, and none of them was written by an
\* earlier flush (every sample of the batch is newer than every sample found
\* in storage); the flush at shutdown writes nothing.
C33_NoSamplePersistedTwice ==
    /\ [][Persisted =>
            LET data == recorded_data.list
            IN  /\ \A i, j \in DOMAIN data : i < j => data[i].id < data[j].id
                /\ \A i \in DOMAIN data, k \in DOMAIN disk :
                      \A id \in IdsIn(disk[k]) : id < data[i].id]_vars
    /\ [][(RecStep /\ recPc = "L192") => disk' = disk]_vars
    /\ [](\A k \in DOMAIN disk : \A i, j \in DOMAIN disk[k].pose :
              i # j => disk[k].pose[i] # disk[k].pose[j])

\* C33 witness: two batches were persisted, into two directories, the first
\* of two samples, the second of one.
C33_Witness ==
    /\ Len(disk) = 2
    /\ Len(disk[1].pose) = 2
    /\ Len(disk[2].pose) = 1
    /\ persistErrs = 0

\* C34: whenever read_data has terminated, for whatever reason, should_stop
\* becomes true.
C34_AcquisitionEndStopsAll ==
    [](acqPc = "done" => <>should_stop)

\* C37: the receives of one subscriber return the published messages in
\* strictly increasing order: none twice, none older than one returned
\* before; for MetaballSubscriber and for CameraSubscriber alike.
C37_ReceivesStrictlyNewer ==
    /\ \A s \in Subscribers : \A i, j \in DOMAIN got[s] :
          i < j => got[s][i] < got[s][j]
    /\ \A i, j \in DOMAIN camOut :
          (i < j /\ ~camOut[i].raised /\ ~camOut[j].raised)
             => camOut[i].img < camOut[j].img

\* C37 witness: a subscriber has received message 1 and then message 3;
\* message 2 was replaced in a pipe before it was read.
C37_Witness ==
    got["s1"] = <<1, 3>>

\* The detected poses of the frames.
DetPoses == {f.pose : f \in {g \in GateFrames : g.found}}

\* C35: if from some tick on the frames show the marker at one and the same
\* raw pose p, read_img_pose eventually emits p, whatever the first frame
\* and the last accepted pose were.
C35_PersistentPoseEventuallyEmitted ==
    \A p \in DetPoses :
        []([](cam_read.marker /\ cam_read.raw = p) => <>(self_pose = p))

\* The square of the Euclidean distance of two translations.
DistSq(a, b) ==
    RatSum([j \in 1..3 |-> RatMul(RatSub(a[j], b[j]), RatSub(a[j], b[j]))])

\* C36: after the first frame, the translation of the pose read_img_pose
\* emits is never farther than 20 from the translation of the pose it
\* emitted before; a raw pose that is farther away is replaced by the pose
\* emitted before, any other raw pose is emitted as it is; and after every
\* call last_pose is the pose just emitted.
C36_EmittedWithinGateOfPrevious ==
    [][(reads' = reads + 1 /\ cam_read'.call = "read_img_pose" /\ cam_read'.ret)
       => /\ last_pose' = self_pose'
          /\ ~first_frame =>
                /\ ~RatGt(DistSq(self_pose'.t, self_pose.t), Rat(20 * 20))
                /\ self_pose' =
                      IF RatGt(DistSq(cam_read'.raw.t, self_pose.t), Rat(20 * 20))
                      THEN self_pose
                      ELSE cam_read'.raw]_vars

\* C36 witness: a frame after the first showed the marker 30 away from the
\* pose emitted before, and that pose was emitted again.
C36_Witness ==
    /\ ~first_frame
    /\ reads >= 2
    /\ cam_read.marker
    /\ cam_read.raw.t = RatVec(<<30, 0, 0>>)
    /\ self_pose.t = RatVec(<<0, 0, 0>>)
    /\ last_pose = self_pose

\* C31: the force of every sample the recorder has obtained is the force
\* that was published in the tick of the sample, whenever the feeder thread
\* of the queue serialised the sample.
C31_RecordedForceIsPublishedForce ==
    \A i \in DOMAIN recorded_data.list :
        recorded_data.list[i].force = recorded_data.list[i].pubf

=============================================================================
